---- MODULE Spec2Model ----
(***************************************************************************)
(* aio_sf_streaming: the CometD session engine BaseSalesforceStreaming     *)
(* (core.py).  One engine instance, an API task calling start / subscribe  *)
(* / unsubscribe / stop, a consumer task iterating messages() or events(), *)
(* ask_stop() callable from anywhere, and the server answering requests.   *)
(*                                                                         *)
(* Strings the code inspects (channel names, frame ids) are sequences of   *)
(* characters, so that str() and startswith() are computed.  A frame is    *)
(* "transmitted" when send() hands it to the transport session; `sent` is  *)
(* the log of these frames in that order.                                  *)
(***************************************************************************)
EXTENDS Integers, Sequences, FiniteSets, TLC

VARIABLES
    session,        \* self.session: None or the open aiohttp session
    client_id,      \* self.client_id
    message_count,  \* self.message_count
    should_stop,    \* self.should_stop
    sent,           \* frames handed to the transport session, in order
    hsAt,           \* Len(sent) when the last handshake response was processed
    hsResp,         \* outcome of the last handshake request
    lastResp,       \* outcome of the last request that ended
    cpc,            \* API task: where it is suspended
    ret,            \* API task: outcome of its last completed call
    ncalls,         \* API task: subscribe/unsubscribe calls made
    mode,           \* consumer iterates "messages" or "events"
    gpc,            \* messages() generator position
    epc,            \* events() generator position
    rest,           \* messages(): elements of the current response not yet reached
    gerr,           \* error that ended the iteration
    mOut,           \* messages yielded by messages()
    eOut,           \* messages yielded by events()
    polls,          \* outcomes of the completed long-polls, in order
    srvSeq,         \* server: messages delivered so far
    calls,          \* start() and stop() calls made on the instance, in order
    ctx,            \* `async with` block: where it is
    subchannels,    \* AutoReconnectMixin: self._subchannels, a set or NoSet for None
    tasks,          \* calls of ReSubscribeMixin.subscribe, in the order they were made
    retry_current_count,     \* ReSubscribeMixin: self.retry_current_count
    retry_current_duration,  \* ReSubscribeMixin: self.retry_current_duration
    lookups,        \* ReplayMixin: get_last_replay_id calls and what they returned, in order
    stores,         \* ReplayMixin: store_replay_id calls handed to create_task(), in order
    stored_replay,  \* the client's replay store: self.stored_replay
    timeout,        \* self.timeout, in milliseconds
    version,        \* self.version
    discovery       \* AutoVersionMixin: outcomes of the get("/services/data/") calls, in order

vars == <<session, client_id, message_count, should_stop, sent, hsAt, hsResp,
          lastResp, cpc, ret, ncalls, mode, gpc, epc, rest, gerr, mOut, eOut, polls, srvSeq,
          calls, ctx, subchannels, tasks, retry_current_count, retry_current_duration,
          lookups, stores, stored_replay, timeout, version, discovery>>

engineVars == <<session, client_id, message_count, should_stop>>
callerVars == <<cpc, ret, ncalls>>
genVars    == <<gpc, epc, rest, gerr, mOut, eOut, polls, srvSeq>>
lifeVars   == <<calls, ctx>>
mixVars    == <<subchannels, tasks, retry_current_count, retry_current_duration>>
replayVars == <<lookups, stores, stored_replay>>
chainVars  == <<timeout, version, discovery>>
extVars    == <<lifeVars, mixVars, replayVars, chainVars>>

\* ---------------------------------------------------------------- bounds
MaxPolls == 2   \* /meta/connect frames the consumer may send
MaxMsgs  == 3   \* messages the server delivers in all
MaxCalls == 1   \* subscribe/unsubscribe calls of the API task

\* ---------------------------------------------------------------- values
None == "None"
Open == "open"

MetaPrefix     == <<"/","m","e","t","a","/">>
MetaHandshake  == MetaPrefix \o <<"h","a","n","d","s","h","a","k","e">>
MetaConnect    == MetaPrefix \o <<"c","o","n","n","e","c","t">>
MetaSubscribe  == MetaPrefix \o <<"s","u","b","s","c","r","i","b","e">>
MetaUnsubscribe == MetaPrefix \o <<"u","n","s","u","b","s","c","r","i","b","e">>
MetaDisconnect == MetaPrefix \o <<"d","i","s","c","o","n","n","e","c","t">>
TopicFoo       == <<"/","t","o","p","i","c","/","F","o","o">>
TopicBar       == <<"/","t","o","p","i","c","/","B","a","r">>

SubChannels == {TopicFoo, TopicBar}
ClientIds   == {"cidA"}

\* str.startswith
StartsWith(s, p) == Len(s) >= Len(p) /\ SubSeq(s, 1, Len(p)) = p

\* dict.get(key, default)
DictGet(d, key, default) == IF key \in DOMAIN d THEN d[key] ELSE default

\* Python truth value of an Optional[str]
Truthy(x) == x # None /\ x # ""

Digit(d) == CASE d = 0 -> "0" [] d = 1 -> "1" [] d = 2 -> "2" [] d = 3 -> "3"
              [] d = 4 -> "4" [] d = 5 -> "5" [] d = 6 -> "6" [] d = 7 -> "7"
              [] d = 8 -> "8" [] d = 9 -> "9"

\* The value of a decimal digit.
DigitVal(c) == CASE c = "0" -> 0 [] c = "1" -> 1 [] c = "2" -> 2 [] c = "3" -> 3
                 [] c = "4" -> 4 [] c = "5" -> 5 [] c = "6" -> 6 [] c = "7" -> 7
                 [] c = "8" -> 8 [] c = "9" -> 9

\* str(n) for n >= 0: the decimal digits
RECURSIVE ToStr(_)
ToStr(n) == IF n < 10 THEN <<Digit(n)>> ELSE ToStr(n \div 10) \o <<Digit(n % 10)>>

\* ------------------------------------------------------- server outcomes
\* What a request ends with: a decoded body, asyncio.TimeoutError, an
\* aiohttp.ClientResponseError with its status code, or a connection error.
Ok(body)      == [kind |-> "ok", code |-> 200, body |-> body]
LocalTimeout  == [kind |-> "TimeoutError", code |-> 0, body |-> <<>>]
HttpError(c)  == [kind |-> "ClientResponseError", code |-> c, body |-> <<>>]
Error(name)   == [kind |-> name, code |-> 0, body |-> <<>>]
ConnError     == Error("ClientConnectionError")
NoResponse    == Error("none")

\* A raised exception as the caller sees it
Raised(e)   == [kind |-> "raise", value |-> e]
Returned(b) == [kind |-> "return", value |-> b]
NoResult    == [kind |-> "none", value |-> <<>>]
NoValue     == <<>>   \* what a call without return statement returns

\* --------------------------------------------------------------- payloads
get_handshake_payload ==
    [channel |-> MetaHandshake, supportedConnectionTypes |-> <<"long-polling">>,
     version |-> "1.0", minimumVersion |-> "1.0"]

get_subscribe_payload(channel) == [channel |-> MetaSubscribe, subscription |-> channel]

get_unsubscribe_payload(channel) == [channel |-> MetaUnsubscribe, subscription |-> channel]

connect_payload == [channel |-> MetaConnect, connectionType |-> "long-polling"]

disconnect_payload == [channel |-> MetaDisconnect]

\* ------------------------------------------------------------------ send
\* send() that sets clientId without testing self.client_id.
send_frame_always_cid(data, n, cid) == ("clientId" :> cid) @@ ("id" :> ToStr(n)) @@ data

\* The frame send() builds from `data` once the counter has the value n.
send_frame(data, n, cid) ==
    LET withId == ("id" :> ToStr(n)) @@ data
    IN  IF Truthy(cid) THEN ("clientId" :> cid) @@ withId ELSE withId

\* send() that assigns the id without incrementing the counter.
send_count_stale(n) == n

\* The counter after send() incremented it.
send_count(n) == n + 1

\* send(data) up to its suspension in post(): the counter is incremented and the
\* frame goes to the transport session `sess`.  With no session, request()
\* fails on self.session.request and nothing is transmitted.
CanPost(sess) == sess # None

send(sess, count, data) ==
    /\ message_count' = send_count(count)
    /\ sent' = IF CanPost(sess)
               THEN Append(sent, send_frame(data, send_count(count), client_id))
               ELSE sent

NoSessionError == Error("AttributeError")

\* What send() gives back to its caller for a transport outcome.
send_result(o) == IF o.kind = "ok" THEN Returned(o.body) ELSE Raised(o)

\* self._subchannels = None: the set that holds the empty name, which is no
\* channel.
NoSet == {<<>>}

default_timeout == 120000   \* self.timeout = 120, in milliseconds

\* No call made yet, no `async with` block entered; the attributes the mixins
\* set in __init__.  A channel absent from a retry dictionary has the value
\* its readers take as default: count 0, duration -1.
ExtInit ==
    /\ calls = <<>>
    /\ ctx = "none"
    /\ subchannels = NoSet
    /\ tasks = <<>>
    /\ retry_current_count = [c \in SubChannels |-> 0]
    /\ retry_current_duration = [c \in SubChannels |-> -1]
    /\ lookups = <<>>
    /\ stores = <<>>
    /\ stored_replay = {}
    /\ timeout = default_timeout
    /\ version = "42.0"
    /\ discovery = <<>>

Init ==
    /\ session = None
    /\ client_id = None
    /\ message_count = 0
    /\ should_stop = FALSE
    /\ sent = <<>>
    /\ hsAt = 0
    /\ hsResp = NoResponse
    /\ lastResp = NoResponse
    /\ cpc = "new"
    /\ ret = NoResult
    /\ ncalls = 0
    /\ mode \in {"messages", "events"}
    /\ gpc = "idle"
    /\ epc = "idle"
    /\ rest = <<>>
    /\ gerr = NoResponse
    /\ mOut = <<>>
    /\ eOut = <<>>
    /\ polls = <<>>
    /\ srvSeq = 0
    /\ ExtInit

\* ------------------------------------------------------------- API task
\* Responses the server gives to a handshake: a client id, a response without
\* one, an empty array, or an HTTP error.
HandshakeBody(c) == <<[channel |-> MetaHandshake, successful |-> TRUE, clientId |-> c]>>

HandshakeOutcomes ==
    {Ok(HandshakeBody(c)) : c \in ClientIds}
    \cup {Ok(<<[channel |-> MetaHandshake, successful |-> FALSE]>>), Ok(<<>>), HttpError(500)}

\* Responses to subscribe, unsubscribe and disconnect.
CallOutcomes(channel) ==
    {Ok(<<[channel |-> channel, successful |-> TRUE]>>), HttpError(500)}

\* start(): suspended in create_connected_session() on fetch_token().
start ==
    /\ cpc = "new"
    /\ cpc' = "fetch_token"
    /\ UNCHANGED <<engineVars, sent, hsAt, hsResp, lastResp, ret, ncalls, mode, extVars, genVars>>

\* handshake() up to its suspension in send(): the counter restarts at 0.
handshake_begin(sess) == send(sess, 0, get_handshake_payload)

\* handshake() reading the id with response[0].get("clientId"): a response
\* without the field gives None and no error.
handshake_client_id_get(body) ==
    IF body = <<>> THEN Raised(Error("IndexError"))
    ELSE Returned(DictGet(body[1], "clientId", None))

\* The client id handshake() reads from the response, response[0]["clientId"].
handshake_client_id(body) ==
    IF body = <<>> THEN Raised(Error("IndexError"))
    ELSE IF "clientId" \notin DOMAIN body[1] THEN Raised(Error("KeyError"))
    ELSE Returned(body[1].clientId)

\* fetch_token() returned: create_connected_session() builds the session,
\* start() stores it and handshake() sends its frame.
create_connected_session ==
    /\ cpc = "fetch_token"
    /\ session' = Open
    /\ handshake_begin(Open)
    /\ cpc' = "handshake"
    /\ UNCHANGED <<client_id, should_stop, hsAt, hsResp, lastResp, ret, ncalls, mode, extVars, genVars>>

\* What fetch_token() raises when the token request gives no bearer token: the
\* assert on token_type, a missing field of the answer, a connection error.
FetchTokenErrors == {Error("AssertionError"), Error("KeyError"), ConnError}

\* create_connected_session() that builds the session before it fetches the
\* token: a failed fetch leaves start() with the session stored.
fetch_token_fails_session_first(e) ==
    /\ cpc = "fetch_token"
    /\ cpc' = "start_failed"
    /\ ret' = Raised(e)
    /\ session' = Open
    /\ UNCHANGED <<client_id, message_count, should_stop, sent, hsAt, hsResp, lastResp, ncalls,
                   mode, extVars, genVars>>

\* fetch_token() raised e: the error leaves create_connected_session() and
\* start(); no session was created.
fetch_token_fails(e) ==
    /\ cpc = "fetch_token"
    /\ cpc' = "start_failed"
    /\ ret' = Raised(e)
    /\ UNCHANGED <<engineVars, sent, hsAt, hsResp, lastResp, ncalls, mode, extVars, genVars>>

\* The handshake response (or error) arrives: handshake() stores the client id
\* and start() returns, or the error leaves start().
handshake(o) ==
    /\ cpc = "handshake"
    /\ lastResp' = o
    /\ hsResp' = o
    /\ hsAt' = Len(sent)
    /\ LET r == send_result(o)
           c == IF r.kind = "return" THEN handshake_client_id(r.value) ELSE r
       IN  IF c.kind = "return"
           THEN /\ client_id' = c.value
                /\ cpc' = "ready"
                /\ ret' = Returned(NoValue)
           ELSE /\ client_id' = client_id
                /\ cpc' = "start_failed"
                /\ ret' = c
    /\ UNCHANGED <<session, message_count, should_stop, sent, ncalls, mode, extVars, genVars>>

\* A call that sends one frame and returns the response: subscribe(),
\* unsubscribe().  Without a session post() raises at once.
call_begin(data, waiting) ==
    /\ send(session, message_count, data)
    /\ IF CanPost(session)
       THEN cpc' = waiting /\ ret' = ret
       ELSE cpc' = cpc /\ ret' = Raised(NoSessionError)

subscribe(channel) ==
    /\ cpc = "ready"
    /\ ncalls < MaxCalls
    /\ ncalls' = ncalls + 1
    /\ call_begin(get_subscribe_payload(channel), "subscribe")
    /\ UNCHANGED <<session, client_id, should_stop, hsAt, hsResp, lastResp, mode, extVars, genVars>>

unsubscribe(channel) ==
    /\ cpc = "ready"
    /\ ncalls < MaxCalls
    /\ ncalls' = ncalls + 1
    /\ call_begin(get_unsubscribe_payload(channel), "unsubscribe")
    /\ UNCHANGED <<session, client_id, should_stop, hsAt, hsResp, lastResp, mode, extVars, genVars>>

\* The response to the subscribe / unsubscribe frame arrives and is returned.
call_end(o) ==
    /\ cpc \in {"subscribe", "unsubscribe"}
    /\ lastResp' = o
    /\ ret' = send_result(o)
    /\ cpc' = "ready"
    /\ UNCHANGED <<engineVars, sent, hsAt, hsResp, ncalls, mode, extVars, genVars>>

\* ask_stop(): no suspension point, callable from any task.
ask_stop ==
    /\ ~should_stop
    /\ should_stop' = TRUE
    /\ UNCHANGED <<session, client_id, message_count, sent, hsAt, hsResp, lastResp,
                   callerVars, mode, extVars, genVars>>

\* stop() that calls close_session() before disconnect(): the session is
\* released first and the disconnect frame cannot be posted.
stop_closes_first ==
    /\ cpc = "ready"
    /\ should_stop' = TRUE
    /\ session' = None
    /\ message_count' = send_count(message_count)
    /\ cpc' = "stop_failed"
    /\ ret' = Raised(NoSessionError)
    /\ UNCHANGED <<client_id, sent, hsAt, hsResp, lastResp, ncalls, mode, extVars, genVars>>

\* stop() up to its suspension: ask_stop(), then disconnect() sends its frame.
stop ==
    /\ cpc = "ready"
    /\ should_stop' = TRUE
    /\ send(session, message_count, disconnect_payload)
    /\ IF CanPost(session)
       THEN cpc' = "disconnect" /\ ret' = ret
       ELSE cpc' = "stop_failed" /\ ret' = Raised(NoSessionError)
    /\ UNCHANGED <<session, client_id, hsAt, hsResp, lastResp, ncalls, mode, extVars, genVars>>

\* close_session(): closes the session if there is one and forgets it.
close_session(sess) == IF sess = None THEN sess ELSE None

\* The disconnect response arrives: stop() goes on to close_session(); an
\* error leaves stop() before it.
disconnect(o) ==
    /\ cpc = "disconnect"
    /\ lastResp' = o
    /\ IF o.kind = "ok"
       THEN /\ session' = close_session(session)
            /\ cpc' = "stopped"
            /\ ret' = Returned(NoValue)
       ELSE /\ session' = session
            /\ cpc' = "stop_failed"
            /\ ret' = send_result(o)
    /\ UNCHANGED <<client_id, message_count, should_stop, sent, hsAt, hsResp, ncalls, mode, extVars,
                   genVars>>

\* ------------------------------------------------------------- generators
\* A step of a generator ends in: "yield" (suspended at yield), "send" (it must
\* send the next /meta/connect frame), "return" or "raise".
\*   msgs: the message yielded, if any;  rest: elements of the response left
GenStep(kind, msgs, r, err) == [kind |-> kind, msgs |-> msgs, rest |-> r, err |-> err]

\* messages() without the test of should_stop inside the for loop.
messages_resume_no_loop_check(r, stopFlag) ==
    IF r # <<>> THEN GenStep("yield", <<Head(r)>>, Tail(r), NoResponse)
    ELSE IF stopFlag THEN GenStep("return", <<>>, r, NoResponse)
         ELSE GenStep("send", <<>>, r, NoResponse)

\* messages() without the test of should_stop at the top of `while True`.
messages_resume_no_top_check(r, stopFlag) ==
    IF r # <<>>
    THEN IF stopFlag THEN GenStep("return", <<>>, r, NoResponse)
         ELSE GenStep("yield", <<Head(r)>>, Tail(r), NoResponse)
    ELSE GenStep("send", <<>>, r, NoResponse)

\* messages(), resumed inside `for message in response` with `r` left to
\* iterate; an exhausted response leads back to the top of `while True`.
messages_resume(r, stopFlag) ==
    IF r # <<>>
    THEN IF stopFlag THEN GenStep("return", <<>>, r, NoResponse)
         ELSE GenStep("yield", <<Head(r)>>, Tail(r), NoResponse)
    ELSE IF stopFlag THEN GenStep("return", <<>>, r, NoResponse)
         ELSE GenStep("send", <<>>, r, NoResponse)

\* messages() that retries on every ClientResponseError, whatever its code.
messages_response_any_code(o, stopFlag) ==
    IF o.kind \in {"TimeoutError", "ClientResponseError"} THEN messages_resume(<<>>, stopFlag)
    ELSE IF o.kind = "ok"
    THEN IF stopFlag THEN GenStep("return", <<>>, o.body, NoResponse)
         ELSE messages_resume(o.body, stopFlag)
    ELSE GenStep("raise", <<>>, <<>>, o)

\* messages() that catches asyncio.TimeoutError only: a 408 is raised.
messages_response_408_raises(o, stopFlag) ==
    IF o.kind = "TimeoutError" THEN messages_resume(<<>>, stopFlag)
    ELSE IF o.kind = "ok"
    THEN IF stopFlag THEN GenStep("return", <<>>, o.body, NoResponse)
         ELSE messages_resume(o.body, stopFlag)
    ELSE GenStep("raise", <<>>, <<>>, o)

\* messages(), resumed when the long-poll send() returns or raises.
messages_response(o, stopFlag) ==
    IF o.kind = "TimeoutError" THEN messages_resume(<<>>, stopFlag)
    ELSE IF o.kind = "ClientResponseError"
    THEN IF o.code = 408 THEN messages_resume(<<>>, stopFlag)
         ELSE GenStep("raise", <<>>, <<>>, o)
    ELSE IF o.kind = "ok"
    THEN IF stopFlag THEN GenStep("return", <<>>, o.body, NoResponse)
         ELSE messages_resume(o.body, stopFlag)
    ELSE GenStep("raise", <<>>, <<>>, o)

\* The test of events(): message.get("channel", "").startswith("/meta/")
IsMeta(message) == StartsWith(DictGet(message, "channel", <<>>), MetaPrefix)

\* events() reading message["channel"] with no default: a message without a
\* channel is not yielded.
events_yields_needs_channel(message) == "channel" \in DOMAIN message /\ ~IsMeta(message)

\* Whether events() yields the message it got from messages().
events_yields(message) == ~IsMeta(message)

\* A step of events() around a step `r` of messages():
\*   kind/out: where events() ends and what it yields,
\*   ikind/inner: where messages() ends and what it yielded on the way.
EvStep(kind, out, ikind, inner, r, err) ==
    [kind |-> kind, out |-> out, ikind |-> ikind, inner |-> inner, rest |-> r, err |-> err]

\* events() that leaves its loop at the first meta message instead of
\* skipping it.
events_step_break(r, stopFlag) ==
    IF r.kind = "yield"
    THEN IF events_yields(r.msgs[1])
         THEN EvStep("yield", r.msgs, "yield", r.msgs, r.rest, NoResponse)
         ELSE EvStep("return", <<>>, "yield", r.msgs, r.rest, NoResponse)
    ELSE EvStep(r.kind, <<>>, r.kind, <<>>, r.rest, r.err)

RECURSIVE events_step(_, _)
events_step(r, stopFlag) ==
    IF r.kind = "yield"
    THEN IF events_yields(r.msgs[1])
         THEN EvStep("yield", r.msgs, "yield", r.msgs, r.rest, NoResponse)
         ELSE LET n == events_step(messages_resume(r.rest, stopFlag), stopFlag)
              IN  [n EXCEPT !.inner = r.msgs \o @]
    ELSE EvStep(r.kind, <<>>, r.kind, <<>>, r.rest, r.err)

\* The consumer iterates messages() directly: events() is not involved.
direct_step(r) == EvStep(r.kind, <<>>, r.kind, r.msgs, r.rest, r.err)

consumer_step(r, stopFlag) ==
    IF mode = "events" THEN events_step(r, stopFlag) ELSE direct_step(r)

PcOf(kind) == CASE kind = "yield" -> "yielded" [] kind = "send" -> "polling"
                [] kind = "return" -> "returned" [] kind = "raise" -> "raised"

\* The effect of a generator step on the state; a "send" step calls send().
Apply(s) ==
    /\ mOut' = mOut \o s.inner
    /\ eOut' = eOut \o s.out
    /\ rest' = s.rest
    /\ IF s.ikind = "send"
       THEN /\ Len(polls) < MaxPolls
            /\ send(session, message_count, connect_payload)
            /\ LET k == IF CanPost(session) THEN "send" ELSE "raise"
               IN  /\ gpc' = PcOf(k)
                   /\ epc' = IF mode = "events" THEN PcOf(k) ELSE epc
                   /\ gerr' = IF CanPost(session) THEN gerr ELSE NoSessionError
       ELSE /\ UNCHANGED <<message_count, sent>>
            /\ gpc' = PcOf(s.ikind)
            /\ epc' = IF mode = "events" THEN PcOf(s.kind) ELSE epc
            /\ gerr' = IF s.ikind = "raise" THEN s.err ELSE gerr

ConsumerPc == IF mode = "events" THEN epc ELSE gpc

\* The consumer asks for the next element (the first call starts the generator).
next_message ==
    /\ ConsumerPc \in {"idle", "yielded"}
    /\ gpc \in {"idle", "yielded"}
    /\ Apply(consumer_step(messages_resume(rest, should_stop), should_stop))
    /\ UNCHANGED <<session, client_id, should_stop, hsAt, hsResp, lastResp, callerVars,
                   mode, extVars, polls, srvSeq>>

\* Channels of the messages the server delivers; <<>> is a message without a
\* channel field.
MessageChannels == {MetaConnect, TopicFoo, <<>>}

Message(ch, n) == IF ch = <<>> THEN [seq |-> n] ELSE [channel |-> ch, seq |-> n]

\* The response arrays the server may give to a long-poll once it has
\* delivered n messages; the messages are numbered in delivery order.
Batches(n) ==
    UNION {{[i \in 1..k |-> Message(f[i], n + i)] : f \in [1..k -> MessageChannels]}
           : k \in 0..(MaxMsgs - n)}

PollOutcomes ==
    {Ok(b) : b \in Batches(srvSeq)}
    \cup {LocalTimeout, HttpError(408), HttpError(404), ConnError}

\* The long-poll ends with outcome o and messages() goes on.
poll_response(o) ==
    /\ gpc = "polling"
    /\ polls' = Append(polls, o)
    /\ srvSeq' = srvSeq + Len(o.body)
    /\ lastResp' = o
    /\ Apply(consumer_step(messages_response(o, should_stop), should_stop))
    /\ UNCHANGED <<session, client_id, should_stop, hsAt, hsResp, callerVars, mode, extVars>>

\* ------------------------------------------------------------------ specs
\* Long-poll outcomes of the session specification: one response kind, one
\* timeout, one error.
SessionPollOutcomes ==
    {Ok(b) : b \in {x \in Batches(srvSeq) : Len(x) = 1 /\ IsMeta(x[1])}}
    \cup {LocalTimeout, HttpError(404)}

\* The whole session: the API task, the consumer and the server.
Next ==
    \/ start
    \/ create_connected_session
    \/ \E e \in FetchTokenErrors : fetch_token_fails(e)
    \/ \E o \in HandshakeOutcomes : handshake(o)
    \/ \E c \in SubChannels : subscribe(c)
    \/ \E c \in SubChannels : unsubscribe(c)
    \/ \E o \in CallOutcomes(MetaSubscribe) : call_end(o)
    \/ ask_stop
    \/ stop
    \/ \E o \in CallOutcomes(MetaDisconnect) : disconnect(o)
    \/ next_message
    \/ \E o \in SessionPollOutcomes : poll_response(o)

Spec == Init /\ [][Next]_vars

\* The engine once start() has returned: the state Spec reaches by start,
\* create_connected_session and a handshake response carrying client id c.
Started(c) ==
    /\ session = Open
    /\ client_id = c
    /\ message_count = 1
    /\ should_stop = FALSE
    /\ sent = <<send_frame(get_handshake_payload, 1, None)>>
    /\ hsAt = 1
    /\ hsResp = Ok(HandshakeBody(c))
    /\ lastResp = Ok(HandshakeBody(c))
    /\ cpc = "ready"
    /\ ret = Returned(NoValue)
    /\ ncalls = 0
    /\ gpc = "idle"
    /\ epc = "idle"
    /\ rest = <<>>
    /\ gerr = NoResponse
    /\ mOut = <<>>
    /\ eOut = <<>>
    /\ polls = <<>>
    /\ srvSeq = 0
    /\ ExtInit

LoopInit == mode \in {"messages", "events"} /\ \E c \in ClientIds : Started(c)

\* The message loop of a started engine: the consumer against every long-poll
\* outcome, with ask_stop() and stop() at any moment.
LoopNext ==
    \/ ask_stop
    \/ stop
    \/ \E o \in CallOutcomes(MetaDisconnect) : disconnect(o)
    \/ next_message
    \/ \E o \in PollOutcomes : poll_response(o)

LoopSpec == LoopInit /\ [][LoopNext]_vars

\* The message loop under ask_stop() alone, with a consumer that keeps
\* iterating and long-polls that always end (with a response, a timeout or an
\* error).
LiveNext ==
    \/ ask_stop
    \/ next_message
    \/ \E o \in PollOutcomes : poll_response(o)

LoopLive ==
    /\ LoopInit
    /\ [][LiveNext]_vars
    /\ WF_vars(next_message)
    /\ WF_vars(\E o \in PollOutcomes : poll_response(o))

\* -------------------------------------------------------------- lifecycle
\* One instance on which start() and stop() are called in any order, directly
\* or by an `async with` block.  A call is logged in `calls` with the position
\* of the API task when it was made: "new" (never started), "ready" (start()
\* returned), "stopped" (stop() returned), "start_failed", "stop_failed".
MaxLife == 3   \* start() and stop() calls made on the instance

Resting == {"new", "ready", "stopped", "start_failed", "stop_failed"}

Call(op) == [op |-> op, at |-> cpc]

\* start() is called: it tests nothing and awaits create_connected_session().
start_call ==
    /\ cpc \in Resting
    /\ Len(calls) < MaxLife
    /\ calls' = Append(calls, Call("start"))
    /\ cpc' = "fetch_token"
    /\ UNCHANGED <<engineVars, sent, hsAt, hsResp, lastResp, ret, ncalls, mode, genVars>>

\* stop() is called: it tests nothing, runs ask_stop(), and disconnect() sends
\* its frame; with no session request() fails on self.session.request.
stop_call ==
    /\ cpc \in Resting
    /\ Len(calls) < MaxLife
    /\ calls' = Append(calls, Call("stop"))
    /\ should_stop' = TRUE
    /\ send(session, message_count, disconnect_payload)
    /\ IF CanPost(session)
       THEN cpc' = "disconnect" /\ ret' = ret
       ELSE cpc' = "stop_failed" /\ ret' = Raised(NoSessionError)
    /\ UNCHANGED <<session, client_id, hsAt, hsResp, lastResp, ncalls, mode, genVars>>

\* The caller calls start() / stop() itself.
life_start == ctx = "none" /\ start_call /\ UNCHANGED <<ctx, mixVars, replayVars, chainVars>>

life_stop == ctx = "none" /\ stop_call /\ UNCHANGED <<ctx, mixVars, replayVars, chainVars>>

\* `async with` on a new instance: __aenter__ awaits start().  The body runs
\* once start() has returned (ctx = "entered", cpc = "ready"); if start() raises,
\* the error leaves the statement and __aexit__ is not called.
aenter ==
    /\ ctx = "none"
    /\ calls = <<>>
    /\ start_call
    /\ ctx' = "entered"
    /\ UNCHANGED <<mixVars, replayVars, chainVars>>

\* The body of the block ends, normally or with an exception: __aexit__ awaits
\* stop().
aexit(raises) ==
    /\ ctx = "entered"
    /\ cpc = "ready"
    /\ stop_call
    /\ ctx' = IF raises THEN "exit_raise" ELSE "exit_normal"
    /\ UNCHANGED <<mixVars, replayVars, chainVars>>

LifeNext ==
    \/ life_start
    \/ life_stop
    \/ aenter
    \/ \E raises \in BOOLEAN : aexit(raises)
    \/ create_connected_session
    \/ \E e \in FetchTokenErrors : fetch_token_fails(e)
    \/ \E o \in HandshakeOutcomes : handshake(o)
    \/ \E o \in CallOutcomes(MetaDisconnect) : disconnect(o)

LifeSpec == Init /\ [][LifeNext]_vars

\* ----------------------------------------------------------------- mixins
\* An instance of a class with AutoReconnectMixin and ReSubscribeMixin before
\* the base class, in the order of AllMixin: subscribe() is
\* AutoReconnectMixin.subscribe, whose super() is ReSubscribeMixin.subscribe,
\* whose super() is the subscribe() of the base class.
\* Durations are in tenths of a second.
MaxSubs == 2   \* subscribe/unsubscribe calls of the API task under the mixins

retry_max_count    == 3   \* constructor argument (default 20)
retry_sub_duration == 1   \* 0.1 s, the default
retry_factor       == 2   \* constructor argument (default 1.)
retry_max_duration == 1   \* constructor argument (default 30.): 0.1 s

ServerUnavailable ==
    <<"S","E","R","V","E","R","_","U","N","A","V","A","I","L","A","B","L","E">>

\* Responses to a subscribe frame: success, "server unavailable", another
\* failure reason, a failure without reason; or an HTTP error.
SubscribeFailure(channel, reason) ==
    <<[channel |-> MetaSubscribe, subscription |-> channel, successful |-> FALSE,
       ext |-> [sfdc |-> [failureReason |-> reason]]]>>

SubscribeOutcomes(channel) ==
    {Ok(<<[channel |-> MetaSubscribe, subscription |-> channel, successful |-> TRUE]>>),
     Ok(SubscribeFailure(channel, ServerUnavailable \o <<":","b","u","s","y">>)),
     Ok(SubscribeFailure(channel, <<"4","0","0",":">> \o ServerUnavailable)),
     Ok(<<[channel |-> MetaSubscribe, subscription |-> channel, successful |-> FALSE]>>),
     HttpError(500)}

\* A callback that retries on every failure response that gives a reason.
should_retry_on_error_response_any(response) ==
    DictGet(DictGet(DictGet(response[1], "ext", <<>>), "sfdc", <<>>),
            "failureReason", <<>>) # <<>>

\* should_retry_on_error_response(channel, response), the default callback
should_retry_on_error_response(response) ==
    StartsWith(DictGet(DictGet(DictGet(response[1], "ext", <<>>), "sfdc", <<>>),
                       "failureReason", <<>>),
               ServerUnavailable)

Min(a, b) == IF a <= b THEN a ELSE b

\* _update_retry_count that gives up two failures later.
update_retry_count_late(count, duration) ==
    IF count + 1 >= retry_max_count + 2
    THEN [retry |-> FALSE, count |-> count + 1, duration |-> duration]
    ELSE [retry |-> TRUE, count |-> count + 1,
          duration |-> IF duration < 0 THEN retry_sub_duration
                       ELSE Min(duration * retry_factor, 10 * retry_max_count)]

\* _update_retry_count(channel) on the channel's count and duration: whether to
\* retry, and the values it stores (the duration only when it says retry).
update_retry_count(count, duration) ==
    IF count + 1 >= retry_max_count
    THEN [retry |-> FALSE, count |-> count + 1, duration |-> duration]
    ELSE [retry |-> TRUE, count |-> count + 1,
          duration |-> IF duration < 0 THEN retry_sub_duration
                       ELSE Min(duration * retry_factor, 10 * retry_max_count)]

\* What the loop of ReSubscribeMixin.subscribe does once the inner subscribe
\* ended:  next: "sleep" (then call again), "return" or "raise";  sleep: the
\* duration it sleeps, if it does;  count, duration: the channel's retry state.
RetryStep(next, result, sleep, count, duration) ==
    [next |-> next, result |-> result, sleep |-> sleep, count |-> count, duration |-> duration]

\* subscribe() that calls again at once, without asyncio.sleep.
retry_step_no_sleep(o, count, duration) ==
    IF o.kind # "ok" THEN RetryStep("raise", Raised(o), <<>>, count, duration)
    ELSE IF o.body # <<>> /\ o.body[1].successful
    THEN RetryStep("return", Returned(o.body), <<>>, 0, -1)
    ELSE IF o.body = <<>> THEN RetryStep("raise", Raised(Error("IndexError")), <<>>, count, duration)
    ELSE IF ~should_retry_on_error_response(o.body)
    THEN RetryStep("return", Returned(o.body), <<>>, 0, -1)
    ELSE LET u == update_retry_count(count, duration)
         IN  IF u.retry THEN RetryStep("sleep", NoResult, <<>>, u.count, u.duration)
             ELSE RetryStep("return", Returned(o.body), <<>>, 0, -1)

\* An exception of the inner subscribe is raised (should_retry_on_exception
\* says no) with the retry state as it is; a response ends the call, with the
\* retry state reset, unless it is a failure the callback and
\* _update_retry_count both want retried.
retry_step(o, count, duration) ==
    IF o.kind # "ok" THEN RetryStep("raise", Raised(o), <<>>, count, duration)
    ELSE IF o.body # <<>> /\ o.body[1].successful
    THEN RetryStep("return", Returned(o.body), <<>>, 0, -1)
    ELSE IF o.body = <<>> THEN RetryStep("raise", Raised(Error("IndexError")), <<>>, count, duration)
    ELSE IF ~should_retry_on_error_response(o.body)
    THEN RetryStep("return", Returned(o.body), <<>>, 0, -1)
    ELSE LET u == update_retry_count(count, duration)
         IN  IF u.retry THEN RetryStep("sleep", NoResult, <<u.duration>>, u.count, u.duration)
             ELSE RetryStep("return", Returned(o.body), <<>>, 0, -1)

\* A call of ReSubscribeMixin.subscribe(channel): made by the API task
\* ("api") or by a task that handshake() created ("handshake").
\*   pc: "created", "waiting" (inner subscribe awaiting its response),
\*       "sleeping", "returned", "raised"
\*   inner: inner subscribe calls made;  resps: what they ended with
\*   count0: the channel's retry count when the call was made
\*   at: the frames sent before the call was made
Task(origin, channel) ==
    [origin |-> origin, channel |-> channel, pc |-> "created", inner |-> 0,
     sleeps |-> <<>>, resps |-> <<>>, result |-> NoResult,
     count0 |-> retry_current_count[channel], at |-> Len(sent)]

\* The call ended: a call of the API task gives it its result.
task_ended(t, ended, result) ==
    IF t.origin = "api" /\ ended
    THEN cpc' = "ready" /\ ret' = result /\ ncalls' = ncalls
    ELSE UNCHANGED callerVars

\* Call i makes its inner subscribe call: the base class sends the subscribe
\* frame; with no session the call raises at once.
inner_subscribe(t) ==
    IF CanPost(session)
    THEN [t EXCEPT !.pc = "waiting", !.inner = @ + 1]
    ELSE [t EXCEPT !.pc = "raised", !.inner = @ + 1, !.result = Raised(NoSessionError)]

\* A created task starts, or the sleep of a call ends: the loop calls the
\* inner subscribe.  The event loop starts tasks in the order of their
\* creation.
task_call(i) ==
    /\ tasks[i].pc \in {"created", "sleeping"}
    /\ tasks[i].pc = "created" => \A j \in 1..(i - 1) : tasks[j].pc # "created"
    /\ send(session, message_count, get_subscribe_payload(tasks[i].channel))
    /\ tasks' = [tasks EXCEPT ![i] = inner_subscribe(@)]
    /\ task_ended(tasks[i], ~CanPost(session), Raised(NoSessionError))
    /\ UNCHANGED <<session, client_id, should_stop, hsAt, hsResp, lastResp, mode, genVars,
                   lifeVars, chainVars, replayVars, subchannels, retry_current_count, retry_current_duration>>

\* A loop whose retry state is one count and one duration of the instance:
\* what one call writes is written for every channel.
task_response_shared(i, o) ==
    /\ tasks[i].pc = "waiting"
    /\ lastResp' = o
    /\ LET ch == tasks[i].channel
           s  == retry_step(o, retry_current_count[ch], retry_current_duration[ch])
       IN  /\ retry_current_count' = [c \in DOMAIN retry_current_count |-> s.count]
           /\ retry_current_duration' = [c \in DOMAIN retry_current_duration |-> s.duration]
           /\ tasks' = [tasks EXCEPT ![i] =
                           [@ EXCEPT !.resps = Append(@, o),
                                     !.sleeps = @ \o s.sleep,
                                     !.result = s.result,
                                     !.pc = CASE s.next = "sleep" -> "sleeping"
                                              [] s.next = "return" -> "returned"
                                              [] s.next = "raise" -> "raised"]]
           /\ task_ended(tasks[i], s.next # "sleep", s.result)
    /\ UNCHANGED <<engineVars, sent, hsAt, hsResp, mode, genVars, lifeVars, chainVars, replayVars, subchannels>>

\* The inner subscribe of call i ends with o.
task_response(i, o) ==
    /\ tasks[i].pc = "waiting"
    /\ lastResp' = o
    /\ LET ch == tasks[i].channel
           s  == retry_step(o, retry_current_count[ch], retry_current_duration[ch])
       IN  /\ retry_current_count' = [retry_current_count EXCEPT ![ch] = s.count]
           /\ retry_current_duration' = [retry_current_duration EXCEPT ![ch] = s.duration]
           /\ tasks' = [tasks EXCEPT ![i] =
                           [@ EXCEPT !.resps = Append(@, o),
                                     !.sleeps = @ \o s.sleep,
                                     !.result = s.result,
                                     !.pc = CASE s.next = "sleep" -> "sleeping"
                                              [] s.next = "return" -> "returned"
                                              [] s.next = "raise" -> "raised"]]
           /\ task_ended(tasks[i], s.next # "sleep", s.result)
    /\ UNCHANGED <<engineVars, sent, hsAt, hsResp, mode, genVars, lifeVars, chainVars, replayVars, subchannels>>

\* AutoReconnectMixin.start up to its suspension: the set is emptied, then
\* start() of the base class.
mix_start ==
    /\ cpc = "new"
    /\ subchannels' = {}
    /\ cpc' = "fetch_token"
    /\ UNCHANGED <<engineVars, sent, hsAt, hsResp, lastResp, ret, ncalls, mode, genVars,
                   lifeVars, chainVars, replayVars, tasks, retry_current_count, retry_current_duration>>

\* subscribe(channel) up to its suspension: AutoReconnectMixin adds the channel
\* to the set, ReSubscribeMixin makes the first inner call.  The caller is the
\* task that iterates messages(): it calls before the loop or in its body.
mix_subscribe(channel) ==
    /\ cpc = "ready"
    /\ epc \in {"idle", "yielded"}
    /\ ncalls < MaxSubs
    /\ ncalls' = ncalls + 1
    /\ subchannels' = subchannels \cup {channel}
    /\ send(session, message_count, get_subscribe_payload(channel))
    /\ tasks' = Append(tasks, inner_subscribe(Task("api", channel)))
    /\ IF CanPost(session)
       THEN cpc' = "resubscribe" /\ ret' = ret
       ELSE cpc' = cpc /\ ret' = Raised(NoSessionError)
    /\ UNCHANGED <<session, client_id, should_stop, hsAt, hsResp, lastResp, mode, genVars,
                   lifeVars, chainVars, replayVars, retry_current_count, retry_current_duration>>

\* Subscribe calls with retry on a started instance.
RetryNext ==
    \/ mix_start
    \/ create_connected_session
    \/ \E o \in HandshakeOutcomes : handshake(o)
    \/ \E c \in SubChannels : mix_subscribe(c)
    \/ \E i \in 1..Len(tasks) : task_call(i)
    \/ \E i \in 1..Len(tasks) : \E o \in SubscribeOutcomes(tasks[i].channel) : task_response(i, o)

RetrySpec == Init /\ [][RetryNext]_vars

\* A loop that returns None instead of re-raising once the retries of an
\* exception are exhausted.
retry_step_policy_swallow(o, says, count, duration) ==
    IF o.kind = "ok" /\ o.body # <<>> /\ o.body[1].successful
    THEN RetryStep("return", Returned(o.body), <<>>, 0, -1)
    ELSE IF ~says
    THEN IF o.kind = "ok" THEN RetryStep("return", Returned(o.body), <<>>, 0, -1)
         ELSE RetryStep("raise", Raised(o), <<>>, count, duration)
    ELSE LET u == update_retry_count(count, duration)
         IN  IF u.retry THEN RetryStep("sleep", NoResult, <<u.duration>>, u.count, u.duration)
             ELSE IF o.kind = "ok" THEN RetryStep("return", Returned(o.body), <<>>, 0, -1)
             ELSE RetryStep("return", Returned(NoValue), <<>>, 0, -1)

\* The loop of ReSubscribeMixin.subscribe with overridden policy callbacks:
\* `says` is the answer of the callback it asks, should_retry_on_exception
\* for an exception of the inner subscribe, should_retry_on_error_response for
\* an unsuccessful response.  An exception that is not retried, or whose
\* retries are exhausted, leaves by `raise`, before the reset of the retry
\* state.
retry_step_policy(o, says, count, duration) ==
    IF o.kind = "ok" /\ o.body # <<>> /\ o.body[1].successful
    THEN RetryStep("return", Returned(o.body), <<>>, 0, -1)
    ELSE IF ~says
    THEN IF o.kind = "ok" THEN RetryStep("return", Returned(o.body), <<>>, 0, -1)
         ELSE RetryStep("raise", Raised(o), <<>>, count, duration)
    ELSE LET u == update_retry_count(count, duration)
         IN  IF u.retry THEN RetryStep("sleep", NoResult, <<u.duration>>, u.count, u.duration)
             ELSE IF o.kind = "ok" THEN RetryStep("return", Returned(o.body), <<>>, 0, -1)
             ELSE RetryStep("raise", Raised(o), <<>>, u.count, u.duration)

\* The inner subscribe of call i ends with o and the callback asked, if one
\* is, answers `says`; the answer is kept with the outcome.
policy_response(i, o, says) ==
    /\ tasks[i].pc = "waiting"
    /\ lastResp' = o
    /\ LET ch == tasks[i].channel
           s  == retry_step_policy(o, says, retry_current_count[ch], retry_current_duration[ch])
       IN  /\ retry_current_count' = [retry_current_count EXCEPT ![ch] = s.count]
           /\ retry_current_duration' = [retry_current_duration EXCEPT ![ch] = s.duration]
           /\ tasks' = [tasks EXCEPT ![i] =
                           [@ EXCEPT !.resps = Append(@, [says |-> says] @@ o),
                                     !.sleeps = @ \o s.sleep,
                                     !.result = s.result,
                                     !.pc = CASE s.next = "sleep" -> "sleeping"
                                              [] s.next = "return" -> "returned"
                                              [] s.next = "raise" -> "raised"]]
           /\ task_ended(tasks[i], s.next # "sleep", s.result)
    /\ UNCHANGED <<engineVars, sent, hsAt, hsResp, mode, genVars, lifeVars, chainVars, replayVars, subchannels>>

\* Outcomes of an inner subscribe: a success, two unsuccessful responses, two
\* exceptions.
PolicyOutcomes(channel) ==
    {o \in SubscribeOutcomes(channel) : o.kind # "ok" \/ "ext" \in DOMAIN o.body[1]
                                            \/ o.body[1].successful}
    \cup {HttpError(503)}

\* Subscribe calls with retry, one after the other on one channel, under any
\* answers of the policy callbacks.
PolicyNext ==
    \/ mix_start
    \/ create_connected_session
    \/ \E o \in HandshakeOutcomes : handshake(o)
    \/ ncalls < MaxCalls /\ mix_subscribe(TopicFoo)
    \/ \E i \in 1..Len(tasks) : task_call(i)
    \/ \E i \in 1..Len(tasks) : \E o \in PolicyOutcomes(tasks[i].channel) :
          \E says \in BOOLEAN : policy_response(i, o, says)

PolicySpec == Init /\ [][PolicyNext]_vars

\* How far each call of subscribe has got: its inner calls made and ended.
TaskProgress == [i \in 1..Len(tasks) |-> <<tasks[i].inner, Len(tasks[i].resps)>>]

\* Outcomes of an inner subscribe, one of each sort: a success, an
\* unsuccessful response, an exception.
LiveOutcomes(channel) ==
    {o \in SubscribeOutcomes(channel) :
        o.kind # "ok" \/ o.body[1].successful \/ should_retry_on_error_response(o.body)}

\* The inner subscribe of call i ends, with one of these outcomes.
policy_end(i) ==
    \E o \in LiveOutcomes(tasks[i].channel) : \E says \in BOOLEAN : policy_response(i, o, says)

\* Subscribe calls with retry on either channel, under any answers of the
\* policy callbacks.
PolicyLiveNext ==
    \/ mix_start
    \/ create_connected_session
    \/ \E o \in HandshakeOutcomes : handshake(o)
    \/ \E c \in SubChannels : ncalls < MaxCalls /\ mix_subscribe(c)
    \/ \E i \in 1..Len(tasks) : task_call(i)
    \/ \E i \in 1..Len(tasks) : policy_end(i)

\* The same calls where a sleep ends and an inner subscribe ends: asyncio.sleep
\* returns after its duration, a request ends with a response or an error.
PolicyLive ==
    /\ Init
    /\ [][PolicyLiveNext]_vars
    /\ WF_TaskProgress(\E i \in 1..Len(tasks) : task_call(i))
    /\ WF_TaskProgress(\E i \in 1..Len(tasks) : policy_end(i))

\* unsubscribe() that sends the frame and leaves the set as it is.
mix_unsubscribe_keep(channel) ==
    /\ cpc = "ready"
    /\ epc \in {"idle", "yielded"}
    /\ ncalls < MaxSubs
    /\ ncalls' = ncalls + 1
    /\ call_begin(get_unsubscribe_payload(channel), "unsubscribe")
    /\ UNCHANGED <<session, client_id, should_stop, hsAt, hsResp, lastResp, mode, genVars,
                   lifeVars, chainVars, replayVars, subchannels, tasks, retry_current_count, retry_current_duration>>

\* unsubscribe(channel) up to its suspension: AutoReconnectMixin removes the
\* channel from the set (KeyError if it is not there), then the base class
\* sends the unsubscribe frame.
mix_unsubscribe(channel) ==
    /\ cpc = "ready"
    /\ epc \in {"idle", "yielded"}
    /\ ncalls < MaxSubs
    /\ ncalls' = ncalls + 1
    /\ IF channel \in subchannels
       THEN /\ subchannels' = subchannels \ {channel}
            /\ call_begin(get_unsubscribe_payload(channel), "unsubscribe")
       ELSE /\ ret' = Raised(Error("KeyError"))
            /\ UNCHANGED <<subchannels, cpc, message_count, sent>>
    /\ UNCHANGED <<session, client_id, should_stop, hsAt, hsResp, lastResp, mode, genVars,
                   lifeVars, chainVars, replayVars, tasks, retry_current_count, retry_current_duration>>

UnknownClient == "403::Unknown client"

\* A test that takes any error of a meta-channel message for the invalidation.
IsReconnect_any_error(message) ==
    /\ StartsWith(message.channel, MetaPrefix)
    /\ DictGet(message, "error", None) # None

\* The test of AutoReconnectMixin.messages() on a message of the inner
\* messages().
IsReconnect(message) ==
    /\ StartsWith(message.channel, MetaPrefix)
    /\ DictGet(message, "error", None) = UnknownClient

\* A step of AutoReconnectMixin.messages() around a step r of the inner
\* messages(): kind "handshake" is the suspension in `await self.handshake()`.
reconnect_step(r) ==
    IF r.kind = "yield"
    THEN IF IsReconnect(r.msgs[1])
         THEN EvStep("handshake", <<>>, "yield", r.msgs, r.rest, NoResponse)
         ELSE EvStep("yield", r.msgs, "yield", r.msgs, r.rest, NoResponse)
    ELSE EvStep(r.kind, <<>>, r.kind, <<>>, r.rest, r.err)

\* The effect of such a step on the state, with the counter at `count` and the
\* client id `cid`: mOut is what the inner messages() yielded, eOut what
\* AutoReconnectMixin.messages() yielded, gpc and epc their positions.
ReconApply(s, count, cid) ==
    /\ mOut' = mOut \o s.inner
    /\ eOut' = eOut \o s.out
    /\ rest' = s.rest
    /\ IF s.kind \in {"handshake", "send"}
       THEN /\ s.kind = "send" => Len(polls) < MaxPolls
            /\ LET base == IF s.kind = "handshake" THEN 0 ELSE count
                   data == IF s.kind = "handshake" THEN get_handshake_payload
                           ELSE connect_payload
               IN  /\ message_count' = send_count(base)
                   /\ sent' = IF CanPost(session)
                              THEN Append(sent, send_frame(data, send_count(base), cid))
                              ELSE sent
            /\ gpc' = IF s.kind = "handshake" THEN "yielded"
                      ELSE IF CanPost(session) THEN "polling" ELSE "raised"
            /\ epc' = IF ~CanPost(session) THEN "raised"
                      ELSE IF s.kind = "handshake" THEN "handshake" ELSE "polling"
            /\ gerr' = IF CanPost(session) THEN gerr ELSE NoSessionError
       ELSE /\ message_count' = count
            /\ sent' = sent
            /\ gpc' = PcOf(s.ikind)
            /\ epc' = PcOf(s.kind)
            /\ gerr' = IF s.kind = "raise" THEN s.err ELSE gerr

\* The consumer asks AutoReconnectMixin.messages() for the next message, once
\* start() has returned and while no call of its own is pending.
recon_next_message ==
    /\ cpc = "ready"
    /\ epc \in {"idle", "yielded"}
    /\ ReconApply(reconnect_step(messages_resume(rest, should_stop)), message_count, client_id)
    /\ UNCHANGED <<session, client_id, should_stop, hsAt, hsResp, lastResp, callerVars,
                   mode, extVars, polls, srvSeq>>

\* The long-poll ends with outcome o.
recon_poll_response(o) ==
    /\ epc = "polling"
    /\ polls' = Append(polls, o)
    /\ srvSeq' = srvSeq + Len(o.body)
    /\ lastResp' = o
    /\ ReconApply(reconnect_step(messages_response(o, should_stop)), message_count, client_id)
    /\ UNCHANGED <<session, client_id, should_stop, hsAt, hsResp, callerVars, mode, extVars>>

\* The sequences that list the elements of set S once each: the orders in
\* which `for channel in self._subchannels` may visit them.
Orders(S) ==
    {q \in [1..Cardinality(S) -> S] : \A i, j \in 1..Cardinality(S) : q[i] = q[j] => i = j}

\* The subscribe calls AutoReconnectMixin.handshake() hands to create_task(),
\* for the channels of set S visited in order q.
resubscribe_tasks(S, q) == [i \in 1..Len(q) |-> Task("handshake", q[i])]

\* handshake() that awaits the subscribe calls it creates: the loop stays
\* suspended in it.
recon_handshake_gather(o) ==
    /\ epc = "handshake"
    /\ lastResp' = o
    /\ hsResp' = o
    /\ hsAt' = Len(sent)
    /\ LET r == send_result(o)
           c == IF r.kind = "return" THEN handshake_client_id(r.value) ELSE r
       IN  IF c.kind = "return" /\ subchannels # NoSet
           THEN /\ client_id' = c.value
                /\ \E q \in Orders(subchannels) :
                      tasks' = tasks \o resubscribe_tasks(subchannels, q)
                /\ epc' = "resubscribing"
                /\ UNCHANGED <<message_count, sent, gpc, rest, mOut, eOut, gerr>>
           ELSE /\ client_id' = IF c.kind = "return" THEN c.value ELSE client_id
                /\ epc' = "raised"
                /\ gerr' = IF c.kind = "return" THEN Error("TypeError") ELSE c.value
                /\ UNCHANGED <<tasks, message_count, sent, gpc, rest, mOut, eOut>>
    /\ UNCHANGED <<session, should_stop, callerVars, mode, polls, srvSeq, lifeVars, chainVars, replayVars,
                   subchannels, retry_current_count, retry_current_duration>>

\* handshake() of the message loop that keeps the client id it had.
recon_handshake_keep_id(o) ==
    /\ epc = "handshake"
    /\ lastResp' = o
    /\ hsResp' = o
    /\ hsAt' = Len(sent)
    /\ LET r == send_result(o)
           c == IF r.kind = "return" THEN handshake_client_id(r.value) ELSE r
       IN  IF c.kind = "return" /\ subchannels # NoSet
           THEN /\ client_id' = client_id
                /\ \E q \in Orders(subchannels) :
                      tasks' = tasks \o resubscribe_tasks(subchannels, q)
                /\ ReconApply(reconnect_step(messages_resume(rest, should_stop)),
                              message_count, client_id)
           ELSE /\ client_id' = IF c.kind = "return" THEN c.value ELSE client_id
                /\ epc' = "raised"
                /\ gerr' = IF c.kind = "return" THEN Error("TypeError") ELSE c.value
                /\ UNCHANGED <<tasks, message_count, sent, gpc, rest, mOut, eOut>>
    /\ UNCHANGED <<session, should_stop, callerVars, mode, polls, srvSeq, lifeVars, chainVars, replayVars,
                   subchannels, retry_current_count, retry_current_duration>>

\* The response to the handshake frame sent by AutoReconnectMixin.messages()
\* arrives: handshake() of the base class stores the client id,
\* AutoReconnectMixin.handshake() creates one task per channel of the set, and
\* messages() continues its loop; an error leaves messages().
recon_handshake(o) ==
    /\ epc = "handshake"
    /\ lastResp' = o
    /\ hsResp' = o
    /\ hsAt' = Len(sent)
    /\ LET r == send_result(o)
           c == IF r.kind = "return" THEN handshake_client_id(r.value) ELSE r
       IN  IF c.kind = "return" /\ subchannels # NoSet
           THEN /\ client_id' = c.value
                /\ \E q \in Orders(subchannels) :
                      tasks' = tasks \o resubscribe_tasks(subchannels, q)
                /\ ReconApply(reconnect_step(messages_resume(rest, should_stop)),
                              message_count, c.value)
           ELSE /\ client_id' = IF c.kind = "return" THEN c.value ELSE client_id
                /\ epc' = "raised"
                /\ gerr' = IF c.kind = "return" THEN Error("TypeError") ELSE c.value
                /\ UNCHANGED <<tasks, message_count, sent, gpc, rest, mOut, eOut>>
    /\ UNCHANGED <<session, should_stop, callerVars, mode, polls, srvSeq, lifeVars, chainVars, replayVars,
                   subchannels, retry_current_count, retry_current_duration>>

\* Messages the server delivers to the reconnecting loop: the invalidation
\* message, a meta message with another error, a topic message with the
\* invalidation error.
ReconMessages(n) ==
    {[channel |-> MetaConnect, error |-> UnknownClient, seq |-> n],
     [channel |-> MetaConnect, error |-> "402::Unknown client", seq |-> n],
     [channel |-> TopicFoo, error |-> UnknownClient, seq |-> n]}

\* The response arrays of the long-polls of the reconnecting loop, once n
\* messages were delivered: one message or more, numbered in delivery order.
ReconMsgs == 2   \* messages the server delivers to the reconnecting loop

MaxInvalid == 1   \* invalidation messages among them

\* The invalidation messages in the responses q.
Invalidations(q) ==
    Cardinality({p \in (1..Len(q)) \X (1..ReconMsgs) :
                    p[2] <= Len(q[p[1]].body) /\ IsReconnect(q[p[1]].body[p[2]])})

ReconBatches(n) ==
    UNION {{b \in [1..k -> UNION {ReconMessages(n + i) : i \in 1..k}] :
               /\ \A i \in 1..k : b[i].seq = n + i
               /\ Invalidations(Append(polls, Ok(b))) <= MaxInvalid}
           : k \in 1..(ReconMsgs - n)}

\* Handshake responses to a reconnecting engine: a new client id, or an error.
RehandshakeOutcomes == {Ok(HandshakeBody("cidB")), HttpError(500)}

\* Subscribe responses that are a success; those that are a success or a
\* retryable failure.
SubscribeSuccess(channel) ==
    {o \in SubscribeOutcomes(channel) : o.kind = "ok" /\ o.body[1].successful}

SubscribeSuccessOrBusy(channel) ==
    {o \in SubscribeOutcomes(channel) :
        o.kind = "ok" /\ (o.body[1].successful \/ should_retry_on_error_response(o.body))}

\* The instance after construction, its consumer iterating messages().
ReconInit == Init /\ mode = "messages"

\* The message loop with Auto Reconnect: one task starts the engine,
\* subscribes, then iterates messages(); the server answers every subscribe
\* with a success.
ReconNext ==
    \/ mix_start
    \/ create_connected_session
    \/ \E o \in HandshakeOutcomes : handshake(o)
    \/ \E c \in SubChannels : epc = "idle" /\ mix_subscribe(c)
    \/ \E i \in 1..Len(tasks) : task_call(i)
    \/ \E i \in 1..Len(tasks) : \E o \in SubscribeSuccess(tasks[i].channel) :
          task_response(i, o)
    \/ recon_next_message
    \/ \E o \in {Ok(b) : b \in ReconBatches(srvSeq)} : recon_poll_response(o)
    \/ \E o \in RehandshakeOutcomes : recon_handshake(o)

ReconSpec == ReconInit /\ [][ReconNext]_vars

\* Responses of the long-polls made of invalidation messages and topic
\* messages.
TrackBatches(n) ==
    {b \in ReconBatches(n) :
        \A i \in 1..Len(b) : IsReconnect(b[i]) \/ b[i].channel = TopicFoo}

\* The same loop when the task also subscribes and unsubscribes in the body of
\* its loop.
TrackNext ==
    \/ mix_start
    \/ create_connected_session
    \/ \E o \in HandshakeOutcomes : handshake(o)
    \/ \E c \in SubChannels : mix_subscribe(c)
    \/ \E c \in SubChannels : mix_unsubscribe(c)
    \/ \E o \in CallOutcomes(MetaUnsubscribe) : call_end(o)
    \/ \E i \in 1..Len(tasks) : task_call(i)
    \/ \E i \in 1..Len(tasks) : \E o \in SubscribeSuccess(tasks[i].channel) :
          task_response(i, o)
    \/ recon_next_message
    \/ \E o \in {Ok(b) : b \in TrackBatches(srvSeq)} : recon_poll_response(o)
    \/ \E o \in RehandshakeOutcomes : recon_handshake(o)

TrackSpec == ReconInit /\ [][TrackNext]_vars

\* Responses of the long-polls when the server invalidates the client with the
\* first message it delivers and sends topic messages after it.
BackoffBatches(n) ==
    {b \in ReconBatches(n) :
        \A i \in 1..Len(b) : IF b[i].seq = 1 THEN IsReconnect(b[i])
                              ELSE b[i].channel = TopicFoo}

\* The loop with Subscribe Retry at work: the task subscribes before its loop;
\* after the invalidation the server answers the subscribes of one channel
\* with a success or with a retryable failure.
BackoffNext ==
    \/ mix_start
    \/ create_connected_session
    \/ \E o \in HandshakeOutcomes : handshake(o)
    \/ \E c \in SubChannels : epc = "idle" /\ mix_subscribe(c)
    \/ \E i \in 1..Len(tasks) : task_call(i)
    \/ \E i \in 1..Len(tasks) :
          \E o \in (IF tasks[i].origin = "handshake" /\ tasks[i].channel = TopicFoo
                     THEN SubscribeSuccessOrBusy(tasks[i].channel)
                     ELSE SubscribeSuccess(tasks[i].channel)) :
             task_response(i, o)
    \/ recon_next_message
    \/ \E o \in {Ok(b) : b \in BackoffBatches(srvSeq)} : recon_poll_response(o)
    \/ \E o \in RehandshakeOutcomes : recon_handshake(o)

BackoffSpec == ReconInit /\ [][BackoffNext]_vars

\* Responses of the long-polls when every message the server delivers is an
\* invalidation message.
StormBatches(n) ==
    {[i \in 1..k |-> [channel |-> MetaConnect, error |-> UnknownClient, seq |-> n + i]]
        : k \in 1..(ReconMsgs - n)}

\* The loop with Subscribe Retry when the server invalidates the client again
\* and again: the task subscribes to one channel before its loop; the server
\* answers the re-issued subscribes with a success or a retryable failure.
StormNext ==
    \/ mix_start
    \/ create_connected_session
    \/ \E o \in HandshakeOutcomes : handshake(o)
    \/ epc = "idle" /\ ncalls = 0 /\ mix_subscribe(TopicFoo)
    \/ \E i \in 1..Len(tasks) : task_call(i)
    \/ \E i \in 1..Len(tasks) :
          \E o \in (IF tasks[i].origin = "handshake"
                     THEN SubscribeSuccessOrBusy(tasks[i].channel)
                     ELSE SubscribeSuccess(tasks[i].channel)) :
             task_response(i, o)
    \/ recon_next_message
    \/ \E o \in {Ok(b) : b \in StormBatches(srvSeq)} : recon_poll_response(o)
    \/ \E o \in RehandshakeOutcomes : recon_handshake(o)

StormSpec == ReconInit /\ [][StormNext]_vars

\* The loop with Subscribe Retry at work on two channels at once: the task
\* subscribes before its loop; after the invalidation the server answers the
\* re-issued subscribes of either channel with a success or with a retryable
\* failure, so that the retry loops of the two tasks interleave.  Each
\* long-poll response delivers one message.
PairNext ==
    \/ mix_start
    \/ create_connected_session
    \/ \E o \in HandshakeOutcomes : handshake(o)
    \/ \E c \in SubChannels : epc = "idle" /\ mix_subscribe(c)
    \/ \E i \in 1..Len(tasks) : task_call(i)
    \/ \E i \in 1..Len(tasks) :
          \E o \in (IF tasks[i].origin = "handshake"
                     THEN SubscribeSuccessOrBusy(tasks[i].channel)
                     ELSE SubscribeSuccess(tasks[i].channel)) :
             task_response(i, o)
    \/ recon_next_message
    \/ \E o \in {Ok(b) : b \in {x \in BackoffBatches(srvSeq) : Len(x) = 1}} :
          recon_poll_response(o)
    \/ \E o \in RehandshakeOutcomes : recon_handshake(o)

PairSpec == ReconInit /\ [][PairNext]_vars

\* ----------------------------------------------------------------- replay
\* ReplayType: the special replay values.
ALL_EVENTS == [kind |-> "ReplayType", value |-> -2]
NEW_EVENTS == [kind |-> "ReplayType", value |-> -1]

\* What get_last_replay_id() may return: None, a ReplayType, an integer
\* [kind |-> "int", value |-> p], or a stored record
\* [kind |-> "Replay", record |-> r].
NoReplay == [kind |-> "None"]

\* The integer ReplayMixin.get_subscribe_payload() derives from what the
\* callback returned.  `not replay_id` holds for None and for 0, not for an
\* Enum member or a non-empty tuple; int() of a tuple raises TypeError.
replay_id_value(v) ==
    LET r == IF v.kind = "None" \/ (v.kind = "int" /\ v.value = 0) THEN NEW_EVENTS ELSE v
    IN  IF r.kind = "Replay" THEN Raised(Error("TypeError")) ELSE Returned(r.value)

\* ReplayMixin.get_handshake_payload()
replay_get_handshake_payload == ("ext" :> [replay |-> TRUE]) @@ get_handshake_payload

\* ReplayMixin.get_subscribe_payload(channel) when the callback returned v.
replay_get_subscribe_payload(channel, v) ==
    LET n == replay_id_value(v)
    IN  IF n.kind = "raise" THEN n
        ELSE Returned(("ext" :> [replay |-> (channel :> n.value)])
                      @@ get_subscribe_payload(channel))

\* fetch_token() returned: start() stores the session and handshake() sends
\* the frame built from ReplayMixin.get_handshake_payload().
replay_create_connected_session ==
    /\ cpc = "fetch_token"
    /\ session' = Open
    /\ send(Open, 0, replay_get_handshake_payload)
    /\ cpc' = "handshake"
    /\ UNCHANGED <<client_id, should_stop, hsAt, hsResp, lastResp, ret, ncalls, mode, extVars,
                   genVars>>

\* The record the test client keeps for a stored position.
Replay(channel, replay_id, creation_time) ==
    [channel |-> channel, replay_id |-> replay_id, creation_time |-> creation_time]

\* Python's order of two strings of decimal digits: the first differing
\* character decides, a proper prefix is smaller.
RECURSIVE StrLess(_, _)
StrLess(a, b) ==
    IF b = <<>> THEN FALSE
    ELSE IF a = <<>> THEN TRUE
    ELSE IF a[1] # b[1] THEN DigitVal(a[1]) < DigitVal(b[1])
    ELSE StrLess(Tail(a), Tail(b))

\* MyTestClient.get_last_replay_id(channel): None without a record of the
\* channel, else a record whose creation_time no other exceeds; max() takes
\* the first such record in the iteration order of the set, which is any.
get_last_replay_id(channel) ==
    LET elements == {r \in stored_replay : r.channel = channel}
    IN  IF elements = {} THEN {NoReplay}
        ELSE {[kind |-> "Replay", record |-> r] : r \in {x \in elements :
                 \A y \in elements : ~StrLess(x.creation_time, y.creation_time)}}

\* What the callback of a client returns for the channel: None, a ReplayType
\* or an integer position, or what MyTestClient returns.
CallbackReturns(channel) ==
    {NoReplay, NEW_EVENTS, ALL_EVENTS} \cup {[kind |-> "int", value |-> p] : p \in {0, 42}}
    \cup get_last_replay_id(channel)

\* subscribe(channel) of a client with ReplayMixin, the callback returning v:
\* the frame is sent, or the error of get_subscribe_payload() leaves
\* subscribe() before send().
replay_subscribe(channel, v) ==
    /\ cpc = "ready"
    /\ ncalls < MaxCalls
    /\ ncalls' = ncalls + 1
    /\ lookups' = Append(lookups, [channel |-> channel, returned |-> v, at |-> Len(sent)])
    /\ LET payload == replay_get_subscribe_payload(channel, v)
       IN  IF payload.kind = "return"
           THEN call_begin(payload.value, "subscribe")
           ELSE ret' = payload /\ UNCHANGED <<cpc, message_count, sent>>
    /\ UNCHANGED <<session, client_id, should_stop, hsAt, hsResp, lastResp, mode, genVars,
                   lifeVars, chainVars, mixVars, stores, stored_replay>>

\* message["data"]["event"] with its replayId and createdDate can be read.
HasEvent(message) ==
    /\ "data" \in DOMAIN message
    /\ "event" \in DOMAIN message.data
    /\ {"replayId", "createdDate"} \subseteq DOMAIN message.data.event

\* ReplayMixin.messages() that creates a store task for the events of one
\* channel only.
replay_step_one_channel(r) ==
    IF r.kind = "yield"
    THEN IF "channel" \notin DOMAIN r.msgs[1]
         THEN EvStep("raise", <<>>, "yield", r.msgs, r.rest, Error("KeyError"))
         ELSE IF r.msgs[1].channel # TopicFoo
         THEN EvStep("yield", r.msgs, "yield", r.msgs, r.rest, NoResponse)
         ELSE IF ~HasEvent(r.msgs[1])
         THEN EvStep("raise", <<>>, "yield", r.msgs, r.rest, Error("KeyError"))
         ELSE EvStep("store", r.msgs, "yield", r.msgs, r.rest, NoResponse)
    ELSE EvStep(r.kind, <<>>, r.kind, <<>>, r.rest, r.err)

\* A step of ReplayMixin.messages() around a step r of the inner messages():
\* kind "store" is a yield preceded by create_task(); a message without
\* channel, or a non-meta message without event fields, raises KeyError.
replay_step(r) ==
    IF r.kind = "yield"
    THEN IF "channel" \notin DOMAIN r.msgs[1]
         THEN EvStep("raise", <<>>, "yield", r.msgs, r.rest, Error("KeyError"))
         ELSE IF StartsWith(r.msgs[1].channel, MetaPrefix)
         THEN EvStep("yield", r.msgs, "yield", r.msgs, r.rest, NoResponse)
         ELSE IF ~HasEvent(r.msgs[1])
         THEN EvStep("raise", <<>>, "yield", r.msgs, r.rest, Error("KeyError"))
         ELSE EvStep("store", r.msgs, "yield", r.msgs, r.rest, NoResponse)
    ELSE EvStep(r.kind, <<>>, r.kind, <<>>, r.rest, r.err)

\* The effect of such a step on the state: create_task() appends the call
\* store_replay_id(channel, replay_id, creation_time), not yet started.
ReplayApply(s) ==
    /\ stores' = IF s.kind = "store"
                 THEN Append(stores, [pc |-> "created"]
                                     @@ Replay(s.out[1].channel,
                                               s.out[1].data.event.replayId,
                                               s.out[1].data.event.createdDate))
                 ELSE stores
    /\ ReconApply([s EXCEPT !.kind = IF @ = "store" THEN "yield" ELSE @],
                  message_count, client_id)

\* ReplayMixin.messages() that awaits store_replay_id() before its yield: the
\* loop goes on once the call has ended.
replay_next_message_awaits ==
    /\ cpc = "ready"
    /\ epc \in {"idle", "yielded"}
    /\ \A i \in 1..Len(stores) : stores[i].pc = "done"
    /\ ReplayApply(replay_step(messages_resume(rest, should_stop)))
    /\ UNCHANGED <<session, client_id, should_stop, hsAt, hsResp, lastResp, callerVars,
                   mode, lifeVars, chainVars, mixVars, lookups, stored_replay, polls, srvSeq>>

\* The consumer asks ReplayMixin.messages() for the next message.
replay_next_message ==
    /\ cpc = "ready"
    /\ epc \in {"idle", "yielded"}
    /\ ReplayApply(replay_step(messages_resume(rest, should_stop)))
    /\ UNCHANGED <<session, client_id, should_stop, hsAt, hsResp, lastResp, callerVars,
                   mode, lifeVars, chainVars, mixVars, lookups, stored_replay, polls, srvSeq>>

\* The long-poll ends with outcome o.
replay_poll_response(o) ==
    /\ epc = "polling"
    /\ polls' = Append(polls, o)
    /\ srvSeq' = srvSeq + Len(o.body)
    /\ lastResp' = o
    /\ ReplayApply(replay_step(messages_response(o, should_stop)))
    /\ UNCHANGED <<session, client_id, should_stop, hsAt, hsResp, callerVars, mode,
                   lifeVars, chainVars, mixVars, lookups, stored_replay>>

\* The event loop starts the oldest store task not yet started: the callback
\* is invoked with the task's arguments.
store_start(i) ==
    /\ stores[i].pc = "created"
    /\ \A j \in 1..(i - 1) : stores[j].pc # "created"
    /\ stores' = [stores EXCEPT ![i].pc = "started"]
    /\ UNCHANGED <<engineVars, sent, hsAt, hsResp, lastResp, callerVars, mode, genVars,
                   lifeVars, chainVars, mixVars, lookups, stored_replay>>

\* A store task that replaces the record kept for its channel.
store_end_last(i) ==
    /\ stores[i].pc = "started"
    /\ stored_replay' = {r \in stored_replay : r.channel # stores[i].channel}
           \cup {Replay(stores[i].channel, stores[i].replay_id, stores[i].creation_time)}
    /\ stores' = [stores EXCEPT ![i].pc = "done"]
    /\ UNCHANGED <<engineVars, sent, hsAt, hsResp, lastResp, callerVars, mode, genVars,
                   lifeVars, chainVars, mixVars, lookups>>

\* A started store task ends: MyTestClient.store_replay_id() has added its
\* record to the set.
store_end(i) ==
    /\ stores[i].pc = "started"
    /\ stored_replay' = stored_replay
           \cup {Replay(stores[i].channel, stores[i].replay_id, stores[i].creation_time)}
    /\ stores' = [stores EXCEPT ![i].pc = "done"]
    /\ UNCHANGED <<engineVars, sent, hsAt, hsResp, lastResp, callerVars, mode, genVars,
                   lifeVars, chainVars, mixVars, lookups>>

\* The n-th message delivered, an event of the channel created at second t.
\* createdDate is the string of the platform, "2018-03-14T11:58:42.1234Z" in
\* the tests; the model keeps its two-digit seconds field, the other fields
\* being those of every other event.
EventMessage(ch, n, t) ==
    [channel |-> ch, seq |-> n,
     data |-> [event |-> [replayId |-> n,
                          createdDate |-> <<Digit(t \div 10), Digit(t % 10)>>]]]

ReplayMsgs == 2   \* messages the server delivers to the client with ReplayMixin

\* The response arrays of the long-polls, once n messages were delivered: each
\* message is a meta message, a topic message without data, or an event of
\* one of two channels created at second 9 or 10.
ReplayBatches(n) ==
    UNION {{b \in [1..k -> UNION {{Message(MetaConnect, n + i), Message(TopicFoo, n + i),
                                    EventMessage(TopicFoo, n + i, 9),
                                    EventMessage(TopicFoo, n + i, 10),
                                    EventMessage(TopicBar, n + i, 10)} : i \in 1..k}] :
               \A i \in 1..k : b[i].seq = n + i}
           : k \in 1..(ReplayMsgs - n)}

\* A client made of ReplayMixin and the base class, with its callbacks: the
\* task that started it subscribes before its loop over messages() or after
\* the loop ended with an error, the event loop runs the store tasks.
ReplayNext ==
    \/ start
    \/ replay_create_connected_session
    \/ \E o \in HandshakeOutcomes : handshake(o)
    \/ \E c \in SubChannels : \E v \in CallbackReturns(c) :
          epc \in {"idle", "raised"} /\ replay_subscribe(c, v)
    \/ \E o \in CallOutcomes(MetaSubscribe) : call_end(o)
    \/ replay_next_message
    \/ \E o \in {Ok(b) : b \in ReplayBatches(srvSeq)} : replay_poll_response(o)
    \/ \E i \in 1..Len(stores) : store_start(i)
    \/ \E i \in 1..Len(stores) : store_end(i)

ReplaySpec == ReconInit /\ [][ReplayNext]_vars

\* The same client iterating messages() without subscribing, the event loop
\* starting every task handed to create_task() and each started callback
\* ending.
ReplayLiveNext ==
    \/ start
    \/ replay_create_connected_session
    \/ \E o \in HandshakeOutcomes : handshake(o)
    \/ ask_stop
    \/ replay_next_message
    \/ \E o \in {Ok(b) : b \in ReplayBatches(srvSeq)} \cup {LocalTimeout} :
          replay_poll_response(o)
    \/ \E i \in 1..Len(stores) : store_start(i)
    \/ \E i \in 1..Len(stores) : store_end(i)

ReplayLive ==
    /\ ReconInit
    /\ [][ReplayLiveNext]_vars
    /\ WF_stores(\E i \in 1..Len(stores) : store_start(i))
    /\ WF_stores(\E i \in 1..Len(stores) : store_end(i))

\* ------------------------------------------------- timeout advice, version
\* TimeoutAdviceMixin.messages() that takes the advice of a message of any
\* channel.
advice_step_any_channel(r, t) ==
    IF r.kind = "yield"
    THEN [timeout |-> IF "advice" \in DOMAIN r.msgs[1]
                         /\ DictGet(r.msgs[1].advice, "timeout", 0) # 0
                      THEN r.msgs[1].advice.timeout ELSE t]
         @@ EvStep("yield", r.msgs, "yield", r.msgs, r.rest, NoResponse)
    ELSE [timeout |-> t] @@ EvStep(r.kind, <<>>, r.kind, <<>>, r.rest, r.err)

\* A step of TimeoutAdviceMixin.messages() around a step r of the inner
\* messages(), self.timeout being t: the message is yielded as it is, and the
\* advice of a /meta/connect message with a timeout that is neither absent
\* nor 0 becomes the timeout.  timeout_advice is in milliseconds and
\* self.timeout = timeout_advice / 1000 in seconds: in thousandths of a
\* second it is timeout_advice.
advice_step(r, t) ==
    IF r.kind = "yield"
    THEN [timeout |-> IF DictGet(r.msgs[1], "channel", <<>>) = MetaConnect
                         /\ "advice" \in DOMAIN r.msgs[1]
                         /\ DictGet(r.msgs[1].advice, "timeout", 0) # 0
                      THEN r.msgs[1].advice.timeout ELSE t]
         @@ EvStep("yield", r.msgs, "yield", r.msgs, r.rest, NoResponse)
    ELSE [timeout |-> t] @@ EvStep(r.kind, <<>>, r.kind, <<>>, r.rest, r.err)

\* The consumer asks TimeoutAdviceMixin.messages() for the next message.
advice_next_message ==
    /\ cpc = "ready"
    /\ epc \in {"idle", "yielded"}
    /\ LET s == advice_step(messages_resume(rest, should_stop), timeout)
       IN  timeout' = s.timeout /\ ReconApply(s, message_count, client_id)
    /\ UNCHANGED <<session, client_id, should_stop, hsAt, hsResp, lastResp, callerVars,
                   mode, lifeVars, mixVars, replayVars, version, discovery, polls, srvSeq>>

\* The long-poll ends with outcome o.
advice_poll_response(o) ==
    /\ epc = "polling"
    /\ polls' = Append(polls, o)
    /\ srvSeq' = srvSeq + Len(o.body)
    /\ lastResp' = o
    /\ LET s == advice_step(messages_response(o, should_stop), timeout)
       IN  timeout' = s.timeout /\ ReconApply(s, message_count, client_id)
    /\ UNCHANGED <<session, client_id, should_stop, hsAt, hsResp, callerVars, mode,
                   lifeVars, mixVars, replayVars, version, discovery>>

AdviceMsgs == 2   \* messages the server delivers to the client with TimeoutAdviceMixin

\* The response arrays of its long-polls, once n messages were delivered: each
\* message is a /meta/connect message with a timeout advice of 42 s, 30 s or
\* 0, with an advice without timeout, or without advice, or a topic message
\* with a timeout advice.
AdviceBatches(n) ==
    UNION {{b \in [1..k -> UNION {{[advice |-> [timeout |-> 42000]] @@ Message(MetaConnect, n + i),
                                    [advice |-> [timeout |-> 30000]] @@ Message(MetaConnect, n + i),
                                    [advice |-> [timeout |-> 0]] @@ Message(MetaConnect, n + i),
                                    [advice |-> [reconnect |-> "retry"]]
                                        @@ Message(MetaConnect, n + i),
                                    Message(MetaConnect, n + i),
                                    [advice |-> [timeout |-> 42000]] @@ Message(TopicFoo, n + i)}
                                   : i \in 1..k}] :
               \A i \in 1..k : b[i].seq = n + i}
           : k \in 1..(AdviceMsgs - n)}

\* fetch_token() returned: start() stores the session and calls handshake();
\* AutoVersionMixin.handshake() is suspended in get("/services/data/").
auto_create_connected_session ==
    /\ cpc = "fetch_token"
    /\ session' = Open
    /\ cpc' = "discovery"
    /\ UNCHANGED <<client_id, message_count, should_stop, sent, hsAt, hsResp, lastResp, ret,
                   ncalls, mode, extVars, genVars>>

\* Answers to get("/services/data/"): no version, two versions, a last entry
\* without version, an HTTP error.
DiscoveryOutcomes ==
    {Ok(<<>>), Ok(<<[version |-> "43.0"], [version |-> "41.0"]>>),
     Ok(<<[version |-> "43.0"], [label |-> "next"]>>), HttpError(500)}

\* AutoVersionMixin.handshake() that adopts the first listed version.
discovery_response_first(o) ==
    /\ cpc = "discovery"
    /\ discovery' = Append(discovery, [at |-> Len(sent)] @@ o)
    /\ lastResp' = o
    /\ IF o.kind = "ok"
       THEN /\ version' = IF o.body # <<>> /\ "version" \in DOMAIN o.body[1]
                          THEN o.body[1].version ELSE version
            /\ handshake_begin(session)
            /\ cpc' = "handshake"
            /\ ret' = ret
       ELSE /\ cpc' = "start_failed"
            /\ ret' = Raised(o)
            /\ UNCHANGED <<version, message_count, sent>>
    /\ UNCHANGED <<session, client_id, should_stop, hsAt, hsResp, ncalls, mode, genVars,
                   lifeVars, mixVars, replayVars, timeout>>

\* get("/services/data/") ends with outcome o: data[-1]["version"] becomes the
\* version, IndexError and KeyError are passed over, and the handshake of the
\* base class sends its frame; an error of get() leaves handshake() and
\* start().
discovery_response(o) ==
    /\ cpc = "discovery"
    /\ discovery' = Append(discovery, [at |-> Len(sent)] @@ o)
    /\ lastResp' = o
    /\ IF o.kind = "ok"
       THEN /\ version' = IF o.body # <<>> /\ "version" \in DOMAIN o.body[Len(o.body)]
                          THEN o.body[Len(o.body)].version ELSE version
            /\ handshake_begin(session)
            /\ cpc' = "handshake"
            /\ ret' = ret
       ELSE /\ cpc' = "start_failed"
            /\ ret' = Raised(o)
            /\ UNCHANGED <<version, message_count, sent>>
    /\ UNCHANGED <<session, client_id, should_stop, hsAt, hsResp, ncalls, mode, genVars,
                   lifeVars, mixVars, replayVars, timeout>>

\* A client made of TimeoutAdviceMixin, AutoVersionMixin and the base class:
\* the task that started it iterates messages().
AdviceNext ==
    \/ start
    \/ auto_create_connected_session
    \/ \E o \in DiscoveryOutcomes : discovery_response(o)
    \/ \E o \in HandshakeOutcomes : handshake(o)
    \/ ask_stop
    \/ advice_next_message
    \/ \E o \in {Ok(b) : b \in AdviceBatches(srvSeq)} \cup {LocalTimeout} :
          advice_poll_response(o)

AdviceSpec == ReconInit /\ [][AdviceNext]_vars

\* ------------------------------------------------------ the extension chain
\* AllMixin: TimeoutAdviceMixin, AutoVersionMixin, ReplayMixin,
\* AutoReconnectMixin, ReSubscribeMixin and the base class, in this order of
\* method resolution.  start() is mix_start, then
\* auto_create_connected_session; handshake() is that of AutoVersionMixin
\* around that of AutoReconnectMixin around that of the base class, its
\* payload that of ReplayMixin.

\* The effect of a step of AutoReconnectMixin.messages() in the chain: on an
\* invalidation message self.handshake() first awaits get("/services/data/"),
\* which fails on self.session.request without a session; every other step is
\* as without the other mixins.  cid: the client id send() finds.
ChainApply(s, cid) ==
    IF s.kind = "handshake"
    THEN /\ mOut' = mOut \o s.inner
         /\ eOut' = eOut \o s.out
         /\ rest' = s.rest
         /\ gpc' = "yielded"
         /\ epc' = IF CanPost(session) THEN "discovery" ELSE "raised"
         /\ gerr' = IF CanPost(session) THEN gerr ELSE NoSessionError
         /\ UNCHANGED <<message_count, sent>>
    ELSE ReconApply(s, message_count, cid)

\* get("/services/data/") of a handshake of the chain ends with outcome o,
\* in start() (cpc = "discovery") or in the message loop (epc = "discovery"):
\* the version is adopted as in discovery_response, then the handshake of the
\* base class resets the count and sends the frame built by
\* ReplayMixin.get_handshake_payload(); an error of get() leaves handshake().
chain_discovery(o) ==
    /\ cpc = "discovery" \/ epc = "discovery"
    /\ discovery' = Append(discovery, [at |-> Len(sent)] @@ o)
    /\ lastResp' = o
    /\ IF o.kind = "ok"
       THEN /\ version' = IF o.body # <<>> /\ "version" \in DOMAIN o.body[Len(o.body)]
                          THEN o.body[Len(o.body)].version ELSE version
            /\ send(session, 0, replay_get_handshake_payload)
            /\ IF cpc = "discovery"
               THEN cpc' = "handshake" /\ UNCHANGED <<ret, epc, gerr>>
               ELSE epc' = "handshake" /\ UNCHANGED <<ret, cpc, gerr>>
       ELSE /\ IF cpc = "discovery"
               THEN cpc' = "start_failed" /\ ret' = Raised(o) /\ UNCHANGED <<epc, gerr>>
               ELSE epc' = "raised" /\ gerr' = o /\ UNCHANGED <<cpc, ret>>
            /\ UNCHANGED <<version, message_count, sent>>
    /\ UNCHANGED <<session, client_id, should_stop, hsAt, hsResp, ncalls, mode,
                   gpc, rest, mOut, eOut, polls, srvSeq, lifeVars, mixVars, replayVars, timeout>>

\* subscribe(channel) of the chain up to its suspension, the callback
\* returning v: AutoReconnectMixin adds the channel to the set, ReSubscribeMixin
\* makes the first inner call, the base class sends the frame built by
\* ReplayMixin.get_subscribe_payload(); an error of get_subscribe_payload()
\* is not retried and leaves subscribe().
chain_subscribe(channel, v) ==
    /\ cpc = "ready"
    /\ epc \in {"idle", "yielded"}
    /\ ncalls < MaxSubs
    /\ ncalls' = ncalls + 1
    /\ subchannels' = subchannels \cup {channel}
    /\ lookups' = Append(lookups, [channel |-> channel, returned |-> v, at |-> Len(sent)])
    /\ LET payload == replay_get_subscribe_payload(channel, v)
       IN  IF payload.kind = "return"
           THEN /\ send(session, message_count, payload.value)
                /\ tasks' = Append(tasks, inner_subscribe(Task("api", channel)))
                /\ IF CanPost(session)
                   THEN cpc' = "resubscribe" /\ ret' = ret
                   ELSE cpc' = cpc /\ ret' = Raised(NoSessionError)
           ELSE /\ tasks' = Append(tasks, [Task("api", channel) EXCEPT
                                              !.pc = "raised", !.inner = 1, !.result = payload])
                /\ ret' = payload
                /\ UNCHANGED <<cpc, message_count, sent>>
    /\ UNCHANGED <<session, client_id, should_stop, hsAt, hsResp, lastResp, mode, genVars,
                   lifeVars, chainVars, stores, stored_replay, retry_current_count,
                   retry_current_duration>>

\* Call i of the chain makes an inner subscribe call, the callback returning
\* v: a created task starts, or the sleep of a call ends.
chain_task_call(i, v) ==
    /\ tasks[i].pc \in {"created", "sleeping"}
    /\ tasks[i].pc = "created" => \A j \in 1..(i - 1) : tasks[j].pc # "created"
    /\ lookups' = Append(lookups, [channel |-> tasks[i].channel, returned |-> v,
                                    at |-> Len(sent)])
    /\ LET payload == replay_get_subscribe_payload(tasks[i].channel, v)
       IN  IF payload.kind = "return"
           THEN /\ send(session, message_count, payload.value)
                /\ tasks' = [tasks EXCEPT ![i] = inner_subscribe(@)]
                /\ task_ended(tasks[i], ~CanPost(session), Raised(NoSessionError))
           ELSE /\ tasks' = [tasks EXCEPT ![i] =
                                [@ EXCEPT !.pc = "raised", !.inner = @ + 1, !.result = payload]]
                /\ task_ended(tasks[i], TRUE, payload)
                /\ UNCHANGED <<message_count, sent>>
    /\ UNCHANGED <<session, client_id, should_stop, hsAt, hsResp, lastResp, mode, genVars,
                   lifeVars, chainVars, stores, stored_replay, subchannels,
                   retry_current_count, retry_current_duration>>

\* The consumer asks messages() of the chain for the next message.  The
\* server of this specification delivers invalidation messages only, which
\* AutoReconnectMixin.messages() consumes: ReplayMixin.messages() and
\* TimeoutAdviceMixin.messages() receive no message to act on.
chain_next_message ==
    /\ cpc = "ready"
    /\ epc \in {"idle", "yielded"}
    /\ ChainApply(reconnect_step(messages_resume(rest, should_stop)), client_id)
    /\ UNCHANGED <<session, client_id, should_stop, hsAt, hsResp, lastResp, callerVars,
                   mode, extVars, polls, srvSeq>>

\* The long-poll of the chain ends with outcome o.
chain_poll_response(o) ==
    /\ epc = "polling"
    /\ polls' = Append(polls, o)
    /\ srvSeq' = srvSeq + Len(o.body)
    /\ lastResp' = o
    /\ ChainApply(reconnect_step(messages_response(o, should_stop)), client_id)
    /\ UNCHANGED <<session, client_id, should_stop, hsAt, hsResp, callerVars, mode, extVars>>

\* The response to the handshake frame of the message loop arrives: the base
\* class stores the client id, AutoReconnectMixin.handshake() creates one
\* task per channel of the set, each a call of ReSubscribeMixin.subscribe, and
\* messages() continues its loop; an error leaves messages().
chain_handshake(o) ==
    /\ epc = "handshake"
    /\ lastResp' = o
    /\ hsResp' = o
    /\ hsAt' = Len(sent)
    /\ LET r == send_result(o)
           c == IF r.kind = "return" THEN handshake_client_id(r.value) ELSE r
       IN  IF c.kind = "return" /\ subchannels # NoSet
           THEN /\ client_id' = c.value
                /\ \E q \in Orders(subchannels) :
                      tasks' = tasks \o resubscribe_tasks(subchannels, q)
                /\ subchannels' = subchannels
                /\ ChainApply(reconnect_step(messages_resume(rest, should_stop)), c.value)
           ELSE /\ client_id' = IF c.kind = "return" THEN c.value ELSE client_id
                /\ epc' = "raised"
                /\ gerr' = IF c.kind = "return" THEN Error("TypeError") ELSE c.value
                /\ UNCHANGED <<tasks, subchannels, message_count, sent, gpc, rest, mOut, eOut>>
    /\ UNCHANGED <<session, should_stop, callerVars, mode, polls, srvSeq, lifeVars, chainVars,
                   replayVars, retry_current_count, retry_current_duration>>

ChainMsgs == 1   \* invalidation messages the server delivers to the chain

\* The responses of the long-polls of the chain once n messages were
\* delivered: one invalidation message.
ChainBatches(n) == {b \in StormBatches(n) : Len(b) = 1 /\ n < ChainMsgs}

\* What get_last_replay_id() of the client of the chain returns: None, the
\* position 0, another position.
ChainReturns == {NoReplay} \cup {[kind |-> "int", value |-> p] : p \in {0, 42}}

\* Answers to get("/services/data/") in the chain: a list of versions, an
\* HTTP error.
ChainDiscovery ==
    {o \in DiscoveryOutcomes :
        o.kind = "ok" => o.body # <<>> /\ "version" \in DOMAIN o.body[Len(o.body)]}

\* A client made of AllMixin: the task that started it subscribes, then
\* iterates messages(); the server invalidates the client and answers the
\* re-issued subscribes with a success or, those of one channel, with a
\* retryable failure.
ChainNext ==
    \/ mix_start
    \/ auto_create_connected_session
    \/ \E o \in ChainDiscovery : chain_discovery(o)
    \/ \E o \in HandshakeOutcomes : handshake(o)
    \/ \E c \in SubChannels : \E v \in ChainReturns : epc = "idle" /\ chain_subscribe(c, v)
    \/ \E i \in 1..Len(tasks) : \E v \in ChainReturns : chain_task_call(i, v)
    \/ \E i \in 1..Len(tasks) :
          \E o \in (IF tasks[i].origin = "handshake" /\ tasks[i].channel = TopicFoo
                     THEN SubscribeSuccessOrBusy(tasks[i].channel)
                     ELSE SubscribeSuccess(tasks[i].channel)) :
             task_response(i, o)
    \/ chain_next_message
    \/ \E o \in {Ok(b) : b \in ChainBatches(srvSeq)} : chain_poll_response(o)
    \/ \E o \in RehandshakeOutcomes : chain_handshake(o)

ChainSpec == ReconInit /\ [][ChainNext]_vars

\* The disconnect response of stop() of the chain arrives: stop() of the
\* base class goes on to close_session(), then AutoReconnectMixin.stop() sets
\* the set of channels to None; an error leaves stop() before both.  stop()
\* neither awaits nor cancels the calls that handshake() created.
mix_disconnect(o) ==
    /\ cpc = "disconnect"
    /\ lastResp' = o
    /\ IF o.kind = "ok"
       THEN /\ session' = close_session(session)
            /\ subchannels' = NoSet
            /\ cpc' = "stopped"
            /\ ret' = Returned(NoValue)
       ELSE /\ session' = session
            /\ subchannels' = subchannels
            /\ cpc' = "stop_failed"
            /\ ret' = send_result(o)
    /\ UNCHANGED <<client_id, message_count, should_stop, sent, hsAt, hsResp, ncalls, mode,
                   genVars, lifeVars, chainVars, replayVars, tasks, retry_current_count,
                   retry_current_duration>>

\* The client made of AllMixin, subscribed to one channel, when another task
\* calls stop() while the loop over messages() awaits a long-poll, after a
\* re-handshake of the loop has created its subscribe call.  A request
\* pending when the session is closed ends with a connection error.
ChainStopNext ==
    \/ mix_start
    \/ auto_create_connected_session
    \/ \E o \in ChainDiscovery : chain_discovery(o)
    \/ \E o \in HandshakeOutcomes : handshake(o)
    \/ \E v \in ChainReturns : epc = "idle" /\ ncalls = 0 /\ chain_subscribe(TopicFoo, v)
    \/ \E i \in 1..Len(tasks) : \E v \in ChainReturns : chain_task_call(i, v)
    \/ \E i \in 1..Len(tasks) :
          \E o \in (IF session # Open THEN {ConnError}
                     ELSE IF tasks[i].origin = "handshake"
                     THEN SubscribeSuccessOrBusy(tasks[i].channel)
                     ELSE SubscribeSuccess(tasks[i].channel)) :
             task_response(i, o)
    \/ chain_next_message
    \/ \E o \in (IF session # Open THEN {ConnError}
                 ELSE {Ok(b) : b \in ChainBatches(srvSeq)}) : chain_poll_response(o)
    \/ \E o \in RehandshakeOutcomes : chain_handshake(o)
    \/ (\E i \in 1..Len(tasks) : tasks[i].origin = "handshake") /\ stop
    \/ \E o \in CallOutcomes(MetaDisconnect) : mix_disconnect(o)

ChainStopSpec == ReconInit /\ [][ChainStopNext]_vars

\* ----------------------------------------------------------------- claims
\* The number a decimal string denotes.
RECURSIVE StrToInt(_)
StrToInt(s) ==
    IF s = <<>> THEN 0 ELSE 10 * StrToInt(SubSeq(s, 1, Len(s) - 1)) + DigitVal(s[Len(s)])

Last(q) == q[Len(q)]

FramesOn(channel) == {i \in 1..Len(sent) : sent[i].channel = channel}

\* The handshake response carried a client id: start() succeeded.
HandshakeSucceeded ==
    /\ hsResp.kind = "ok"
    /\ hsResp.body # <<>>
    /\ "clientId" \in DOMAIN hsResp.body[1]

\* LoopInit is a state of Spec: start() completed with no other activity.
StartedReached == \E c \in ClientIds : Started(c)

\* C1: with a single handshake, the first frame transmitted is the handshake
\* frame and it has id "1"; every later frame has the id of the frame before it
\* plus one; every frame transmitted after the handshake response was
\* received carries the clientId that response returned.
C1_FrameIds ==
    \A i \in 1..Len(sent) :
        /\ (i = 1) => (sent[i].channel = MetaHandshake)
        /\ (sent[i].channel = MetaHandshake) => (sent[i].id = <<"1">>)
        /\ (i > 1) => (StrToInt(sent[i].id) = StrToInt(sent[i - 1].id) + 1)
        /\ (HandshakeSucceeded /\ i > hsAt) =>
              /\ "clientId" \in DOMAIN sent[i]
              /\ sent[i].clientId = hsResp.body[1].clientId

\* C1 witness: after a successful start(), a subscribe or unsubscribe frame, a
\* connect frame and the disconnect frame were all transmitted.
C1_Witness ==
    /\ HandshakeSucceeded
    /\ Len(sent) >= 4
    /\ FramesOn(MetaSubscribe) \cup FramesOn(MetaUnsubscribe) # {}
    /\ FramesOn(MetaConnect) # {}
    /\ FramesOn(MetaDisconnect) # {}
    /\ \A i \in 2..Len(sent) : i > hsAt

\* C2: a step in which send() runs increments the counter by exactly one
\* (handshake() having reset it to 0 first); the frame transmitted then is the
\* only change of the frame log, its id is the new counter value in decimal,
\* and it has a clientId field exactly when the session holds a client id,
\* equal to it; subscribe()/unsubscribe() return the body of the response
\* received.
C2_Send ==
    [][LET base == IF cpc = "fetch_token" /\ cpc' = "handshake" THEN 0 ELSE message_count
       IN  /\ (message_count' # message_count \/ sent' # sent) => (message_count' = base + 1)
           /\ (sent' # sent) =>
                 /\ Len(sent') = Len(sent) + 1
                 /\ SubSeq(sent', 1, Len(sent)) = sent
                 /\ StrToInt(Last(sent').id) = message_count'
                 /\ ("clientId" \in DOMAIN Last(sent')) <=> (client_id # None)
                 /\ ("clientId" \in DOMAIN Last(sent')) => (Last(sent').clientId = client_id)
           /\ (cpc \in {"subscribe", "unsubscribe"} /\ cpc' = "ready" /\ lastResp'.kind = "ok")
                 => (ret' = Returned(lastResp'.body))
      ]_vars

\* C2 witness: the handshake frame went out without clientId, the frame of a
\* subscribe/unsubscribe call with it, and the call returned a response.
C2_Witness ==
    /\ cpc = "ready"
    /\ ncalls = 1
    /\ gpc = "idle"
    /\ Len(sent) = 2
    /\ "clientId" \notin DOMAIN sent[1]
    /\ "clientId" \in DOMAIN sent[2]
    /\ lastResp.kind = "ok"
    /\ ret.kind = "return"

\* C10: the stop-flag is set by the time the disconnect frame is transmitted,
\* and the session is released only in the step that receives the response to
\* that frame, with the flag set.
C10_StopOrder ==
    /\ [](FramesOn(MetaDisconnect) # {} => should_stop)
    /\ [][(session # None /\ session' = None) =>
             /\ should_stop
             /\ FramesOn(MetaDisconnect) # {}
             /\ cpc = "disconnect"
             /\ lastResp'.kind = "ok"
             /\ cpc' = "stopped"]_vars

\* C10 witness: stop() ran to its end.
C10_Witness ==
    /\ cpc = "stopped"
    /\ session = None
    /\ should_stop
    /\ FramesOn(MetaDisconnect) # {}

\* A timeout signal: the local timeout or a 408 status.
IsTimeout(o) == o.kind = "TimeoutError" \/ (o.kind = "ClientResponseError" /\ o.code = 408)

OnlyTimeouts(q) == \A i \in 1..Len(q) : IsTimeout(q[i])

ConnectsSent == Cardinality(FramesOn(MetaConnect))

Terminated(pc) == pc \in {"returned", "raised"}

\* The long-polls so far: timeout signals only, then one success.
TimeoutsThenSuccess ==
    /\ Len(polls) >= 1
    /\ OnlyTimeouts(SubSeq(polls, 1, Len(polls) - 1))
    /\ Last(polls).kind = "ok"

IsPrefix(p, q) == Len(p) <= Len(q) /\ SubSeq(q, 1, Len(p)) = p

\* C3: every long-poll outcome answers exactly one connect frame; while all
\* outcomes are timeout signals nothing is yielded and, unless stopped, the
\* connect frame is sent again; after timeouts followed by one success the
\* messages yielded are the elements of that response in order: a prefix of
\* it, and (stop-flag not set) all of it once the generator went through it.
C3_TimeoutsThenSuccess ==
    /\ ConnectsSent = Len(polls) + (IF gpc = "polling" THEN 1 ELSE 0)
    /\ OnlyTimeouts(polls) => (mOut = <<>>)
    /\ (Len(polls) >= 1 /\ OnlyTimeouts(polls) /\ ~should_stop) => (gpc = "polling")
    /\ TimeoutsThenSuccess =>
          /\ IsPrefix(mOut, Last(polls).body)
          /\ ~should_stop =>
                /\ mOut \o rest = Last(polls).body
                /\ gpc \in {"yielded", "polling"}

\* C3 witness: a timeout signal, then a response of two or more messages, all
\* of them yielded.
C3_Witness ==
    /\ Len(polls) = 2
    /\ IsTimeout(polls[1])
    /\ polls[2].kind = "ok"
    /\ Len(polls[2].body) >= 2
    /\ mOut = polls[2].body
    /\ ~should_stop
    /\ ConnectsSent = 2

\* C4: a long-poll ending with an error that is no timeout signal makes
\* messages() raise that error in the same step, with no message yielded and
\* no connect frame sent; once it raised, it yields and sends nothing more.
C4_ErrorPropagates ==
    /\ [][(Len(polls') = Len(polls) + 1 /\ Last(polls').kind # "ok" /\ ~IsTimeout(Last(polls')))
             => /\ gpc' = "raised"
                /\ (mode = "events") => (epc' = "raised")
                /\ gerr' = Last(polls')
                /\ mOut' = mOut /\ eOut' = eOut
                /\ ConnectsSent' = ConnectsSent]_vars
    /\ [][(gpc = "raised")
             => /\ gpc' = "raised"
                /\ mOut' = mOut /\ eOut' = eOut
                /\ ConnectsSent' = ConnectsSent]_vars

\* C4 witness: messages() raised a 404 after it had yielded messages.
C4_Witness ==
    /\ gpc = "raised"
    /\ gerr.kind = "ClientResponseError" /\ gerr.code = 404
    /\ Len(polls) = 2
    /\ mOut # <<>>

\* C5: in a state where the stop-flag is set, no step yields a message.
C5_NoYieldAfterStop ==
    [][should_stop => (mOut' = mOut /\ eOut' = eOut)]_vars

\* C5 witness: messages() returned after yielding the first element of a
\* response and with the other elements left.
C5_Witness ==
    /\ should_stop
    /\ gpc = "returned"
    /\ polls # <<>>
    /\ Last(polls).kind = "ok"
    /\ mOut # <<>>
    /\ rest # <<>>
    /\ Last(mOut) = Head(Last(polls).body)
    /\ rest = Tail(Last(polls).body)

\* C6: in a state where the stop-flag is set, no step transmits a
\* /meta/connect frame.
C6_NoConnectAfterStop ==
    [][should_stop => (ConnectsSent' = ConnectsSent)]_vars

\* C6 witness: a long-poll timed out with the flag set and messages() returned
\* at the top of its loop instead of sending again.
C6_Witness ==
    /\ should_stop
    /\ gpc = "returned"
    /\ polls # <<>>
    /\ IsTimeout(Last(polls))

\* C7: once the stop-flag is set the iteration eventually terminates (consumer
\* iterating, long-polls ending), and the long-poll in flight when the flag is
\* set is the last one: its completion terminates the iteration.
C7_StopTerminates ==
    /\ should_stop ~> (Terminated(gpc) /\ (mode = "events" => Terminated(epc)))
    /\ [][(should_stop /\ gpc = "polling" /\ polls' # polls)
             => (Terminated(gpc') /\ (mode = "events" => Terminated(epc')))]_vars

\* C7 witness: the flag was set during a long-poll; its response arrived and
\* messages() returned without yielding any of it.
C7_Witness ==
    /\ should_stop
    /\ gpc = "returned"
    /\ polls # <<>>
    /\ Last(polls).kind = "ok"
    /\ Last(polls).body # <<>>
    /\ rest = Last(polls).body

\* A message on a meta channel: it has a channel that begins with "/meta/".
OnMetaChannel(m) ==
    /\ "channel" \in DOMAIN m
    /\ Len(m.channel) >= 6
    /\ \A i \in 1..6 : m.channel[i] = <<"/", "m", "e", "t", "a", "/">>[i]

NotOnMetaChannel(m) == ~OnMetaChannel(m)

\* C8: what events() yielded is what the underlying messages() yielded with
\* the meta-channel messages removed, in the same order.
C8_EventsFilter ==
    (mode = "events") =>
        /\ eOut = SelectSeq(mOut, NotOnMetaChannel)
        /\ \A i \in 1..Len(eOut) : ~OnMetaChannel(eOut[i])

\* C8 witness: messages() yielded a meta message then two others, one of them
\* without a channel; events() yielded the two.
C8_Witness ==
    /\ mode = "events"
    /\ Len(mOut) = 3
    /\ OnMetaChannel(mOut[1])
    /\ Len(eOut) = 2
    /\ \E i \in 1..2 : "channel" \notin DOMAIN eOut[i]

\* C9: events() has returned exactly when messages() has returned, and has
\* raised exactly when messages() has raised.
C9_EventsTermination ==
    (mode = "events") =>
        /\ (epc = "returned") <=> (gpc = "returned")
        /\ (epc = "raised") <=> (gpc = "raised")

\* C9 witness: events() ended with messages(), after meta messages it skipped.
C9_Witness ==
    /\ mode = "events"
    /\ Terminated(epc)
    /\ Terminated(gpc)
    /\ eOut # <<>>
    /\ Len(mOut) > Len(eOut)

\* The last call is stop(), made on an instance never started or on which a
\* stop() had returned, and that call has ended.
StopOnIdleEnded ==
    /\ calls # <<>>
    /\ Last(calls).op = "stop"
    /\ Last(calls).at \in {"new", "stopped"}
    /\ cpc \in Resting

\* C11: a stop() called a second time on a stopped instance, or on an instance
\* that was never started, is a no-op: it ends without raising, and it leaves
\* the instance without session and transmits no frame.
C11_StopNoOp ==
    StopOnIdleEnded => (ret.kind # "raise" /\ session = None)

\* STARTED: start() has returned, the transport session is held and a client id
\* is assigned.
IsStarted == cpc = "ready" /\ session # None /\ client_id # None

\* A stop() has returned on the instance: it is, or a later call found it, in
\* the position "stopped".
StopCompleted == cpc = "stopped" \/ \E i \in 1..Len(calls) : calls[i].at = "stopped"

\* C12: STOPPED is terminal: once a stop() has returned on an instance, no
\* later start() brings it back to STARTED.
C12_StoppedTerminal == StopCompleted => ~IsStarted

\* The `async with` block was left: its body ended and the stop() awaited by
\* __aexit__ has ended.
BlockExited == ctx \in {"exit_normal", "exit_raise"} /\ cpc \in Resting

\* C13: when the `async with` block is left, whether its body ended normally
\* or raised, start() was called once (on entry), stop() exactly once (on
\* exit), and the transport session is released.
C13_ScopedForm ==
    BlockExited =>
        /\ calls = <<[op |-> "start", at |-> "new"], [op |-> "stop", at |-> "ready"]>>
        /\ session = None

\* C14: the handshake frame is transmitted only in the step in which
\* fetch_token() has returned and the session is created, through that session;
\* when fetch_token() fails, start() raises the error of the token fetch, no
\* frame is transmitted and the instance holds no transport session.
C14_StartOrder ==
    /\ [][(sent' # sent /\ Last(sent').channel = MetaHandshake)
             => (cpc = "fetch_token" /\ session' # None)]_vars
    /\ [][(cpc = "fetch_token" /\ cpc' = "start_failed")
             => /\ ret'.kind = "raise"
                /\ ret'.value \in FetchTokenErrors
                /\ sent' = sent
                /\ session' = None]_vars
    /\ []((cpc = "start_failed" /\ hsResp = NoResponse) => (sent = <<>> /\ session = None))

\* C14 witness: start() failed on the token fetch.
C14_Witness ==
    /\ cpc = "start_failed"
    /\ ret.kind = "raise"
    /\ hsResp = NoResponse
    /\ sent = <<>>
    /\ session = None

\* A handshake response that carries no client id: an empty array, or a first
\* element without the clientId field.
LacksClientId(o) == o.kind = "ok" /\ (o.body = <<>> \/ "clientId" \notin DOMAIN o.body[1])

\* C15: when the handshake response of start() lacks a client id, start()
\* raises the error of reading it (KeyError, or IndexError on an empty array)
\* and the client id of the session is still unset.
C15_NoClientId ==
    /\ [][(cpc = "handshake" /\ cpc' # cpc /\ LacksClientId(hsResp'))
             => /\ cpc' = "start_failed"
                /\ ret'.kind = "raise"
                /\ ret'.value.kind \in {"KeyError", "IndexError"}
                /\ client_id = None
                /\ client_id' = None]_vars
    /\ []((cpc = "start_failed" /\ LacksClientId(hsResp)) => client_id = None)

\* C15 witness: start() failed on a handshake response without clientId.
C15_Witness ==
    /\ cpc = "start_failed"
    /\ hsResp.kind = "ok"
    /\ hsResp.body # <<>>
    /\ "clientId" \notin DOMAIN hsResp.body[1]
    /\ ret.kind = "raise"
    /\ client_id = None

\* C16: the client id is unset until the first handshake response is
\* processed, is the id of the response after a successful handshake, and is
\* unset again once disconnect() has returned, so after every stop() that
\* returned.
C16_ClientIdCleared ==
    /\ (hsResp = NoResponse) => (client_id = None)
    /\ (cpc = "ready" /\ HandshakeSucceeded) => (client_id = hsResp.body[1].clientId)
    /\ (cpc = "stopped") => (client_id = None)

\* A failure response whose failureReason begins with SERVER_UNAVAILABLE.
IsBusy(o) ==
    /\ o.kind = "ok"
    /\ o.body # <<>>
    /\ ~o.body[1].successful
    /\ "ext" \in DOMAIN o.body[1]
    /\ Len(o.body[1].ext.sfdc.failureReason) >= 18
    /\ SubSeq(o.body[1].ext.sfdc.failureReason, 1, 18) = ServerUnavailable

IsSuccess(o) == o.kind = "ok" /\ o.body # <<>> /\ o.body[1].successful

\* The inner calls of t ended with n retryable failures, then a success.
BusyThenSuccess(t, n) ==
    /\ Len(t.resps) = n + 1
    /\ \A k \in 1..n : IsBusy(t.resps[k])
    /\ IsSuccess(t.resps[n + 1])

\* The inner calls of t ended with n retryable failures and nothing else yet.
OnlyBusy(t, n) == Len(t.resps) = n /\ \A k \in 1..n : IsBusy(t.resps[k])

\* C20: a subscribe(channel) whose inner subscribe gave N retryable failures
\* followed by a success, N below retry_max_count, has returned that success
\* response, after exactly N + 1 inner calls and exactly N sleeps; and a call
\* made with the channel's retry count at 0 that got N such failures so far, N
\* below retry_max_count, has slept N times and goes on to call number N + 1.
C20_RetryThenSuccess ==
    \A i \in 1..Len(tasks) : \A n \in 0..(retry_max_count - 1) :
        /\ BusyThenSuccess(tasks[i], n) =>
              /\ tasks[i].pc = "returned"
              /\ tasks[i].result = Returned(tasks[i].resps[n + 1].body)
              /\ tasks[i].inner = n + 1
              /\ Len(tasks[i].sleeps) = n
        /\ (n >= 1 /\ OnlyBusy(tasks[i], n) /\ tasks[i].count0 = 0) =>
              /\ Len(tasks[i].sleeps) = n
              /\ \/ tasks[i].pc = "sleeping" /\ tasks[i].inner = n
                 \/ tasks[i].pc = "waiting" /\ tasks[i].inner = n + 1

\* C20 witness: a subscribe() of the API task returned the success that came
\* after two retryable failures.
C20_Witness ==
    \E i \in 1..Len(tasks) :
        /\ BusyThenSuccess(tasks[i], 2)
        /\ tasks[i].origin = "api"
        /\ tasks[i].pc = "returned"
        /\ cpc = "ready"
        /\ ret.kind = "return"

\* The message is on a meta channel and its error is "403::Unknown client".
IsInvalidation(m) ==
    /\ Len(m.channel) >= 6
    /\ SubSeq(m.channel, 1, 6) = <<"/", "m", "e", "t", "a", "/">>
    /\ "error" \in DOMAIN m
    /\ m.error = "403::Unknown client"

NotInvalidation(m) == ~IsInvalidation(m)

\* The calls of subscribe that handshake() handed to create_task(), among the
\* calls from position n on.
Reissued(q, n) == {i \in n..Len(q) : q[i].origin = "handshake"}

\* The step in which the response to a handshake of the message loop arrives,
\* and the response carries a client id.
RehandshakeAnswered ==
    /\ epc = "handshake"
    /\ hsAt' # hsAt
    /\ hsResp'.kind = "ok"
    /\ ~LacksClientId(hsResp')

\* C17: with Auto Reconnect the engine has sent one handshake frame for start()
\* and one more for each invalidation message (a meta-channel message whose
\* error is "403::Unknown client") the loop received, and none for any other
\* message; the consumer is given the messages received except the
\* invalidation messages, in order; and when the handshake is answered with a
\* client id, one call of subscribe is created for each channel of the
\* Subscription Set, and the loop goes on (to the next message, the next
\* /meta/connect frame or the next handshake) in the same step.
C17_Reconnect ==
    /\ [](sent # <<>> =>
            Cardinality(FramesOn(MetaHandshake))
                = 1 + Len(SelectSeq(mOut, IsInvalidation)))
    /\ [](eOut = SelectSeq(mOut, NotInvalidation))
    /\ [][RehandshakeAnswered =>
            /\ Len(tasks') = Len(tasks) + Cardinality(subchannels)
            /\ SubSeq(tasks', 1, Len(tasks)) = tasks
            /\ \A c \in subchannels :
                  Cardinality({i \in Reissued(tasks', Len(tasks) + 1) :
                                  tasks'[i].channel = c /\ tasks'[i].pc = "created"}) = 1
            /\ epc' \in {"yielded", "polling", "returned", "handshake"}]_vars

C17_Witness ==
    /\ Len(mOut) = 2
    /\ IsInvalidation(mOut[1])
    /\ eOut = <<mOut[2]>>
    /\ mOut[2].channel = MetaConnect
    /\ Cardinality(FramesOn(MetaHandshake)) = 2
    /\ subchannels = SubChannels
    /\ Cardinality(Reissued(tasks, 1)) = 2
    /\ \A i \in Reissued(tasks, 1) : tasks[i].pc = "returned"

\* The calls of subscribe(channel) the API task made: their positions in
\* tasks.  The frames of unsubscribe(channel) sent.
ApiSubscribes(channel) ==
    {i \in 1..Len(tasks) : tasks[i].origin = "api" /\ tasks[i].channel = channel}

UnsubscribeFrames(channel) ==
    {k \in FramesOn(MetaUnsubscribe) : sent[k].subscription = channel}

\* The channels subscribed and not unsubscribed since: some call of
\* subscribe(channel) was made after every unsubscribe frame for the channel.
Tracked ==
    {c \in SubChannels :
        \E i \in ApiSubscribes(c) : \A k \in UnsubscribeFrames(c) : k <= tasks[i].at}

\* A step of the API task that sends a frame on `channel`, for a call counted
\* in ncalls.
ApiFrame(channel) ==
    /\ ncalls' = ncalls + 1
    /\ Len(sent') = Len(sent) + 1
    /\ sent'[Len(sent')].channel = channel

\* C18: the Subscription Set is empty from the call of start() to the first
\* subscribe; the step that sends the frame of subscribe(channel) has added
\* the channel to the set, the step that sends the frame of
\* unsubscribe(channel) has removed it; the set is at all times the set of
\* channels subscribed and not unsubscribed since; and the calls created in
\* the step that answers a handshake of the message loop are for exactly
\* these channels.
C18_SubscriptionSet ==
    /\ []((cpc # "new" /\ ncalls = 0) => subchannels = {})
    /\ [](cpc # "new" => subchannels = Tracked)
    /\ [][/\ ApiFrame(MetaSubscribe) =>
                subchannels' = subchannels \cup {sent'[Len(sent')].subscription}
          /\ ApiFrame(MetaUnsubscribe) =>
                /\ sent'[Len(sent')].subscription \in subchannels
                /\ subchannels' = subchannels \ {sent'[Len(sent')].subscription}
          /\ RehandshakeAnswered =>
                {tasks'[i].channel : i \in Reissued(tasks', Len(tasks) + 1)} = Tracked]_vars

C18_Witness ==
    /\ ApiSubscribes(TopicFoo) # {}
    /\ UnsubscribeFrames(TopicFoo) # {}
    /\ subchannels = {}
    /\ Cardinality(FramesOn(MetaHandshake)) = 2
    /\ client_id = "cidB"
    /\ Reissued(tasks, 1) = {}
    /\ eOut # <<>>

\* The frames sent after the call at position i of tasks was created.
SentSince(i) == {k \in (tasks[i].at + 1)..Len(sent) : TRUE}

\* A call of subscribe that handshake() created has not ended: it has not yet
\* run, awaits the response to its frame, or sleeps before its next attempt.
Unfinished(i) ==
    /\ tasks[i].origin = "handshake"
    /\ tasks[i].pc \in {"created", "waiting", "sleeping"}

\* C19: in the step that answers a handshake of the message loop with a client
\* id, the loop goes on to the next message, the next /meta/connect frame or
\* the next handshake while every call of subscribe created in that step has
\* not yet run; if the step sends a frame it is that /meta/connect or
\* handshake frame, and no step of a subscribe call changes the position of
\* the loop.
C19_LoopDoesNotWait ==
    [][/\ RehandshakeAnswered =>
             /\ \A i \in (Len(tasks) + 1)..Len(tasks') : tasks'[i].pc = "created"
             /\ epc' \in {"yielded", "polling", "returned", "handshake"}
             /\ epc' = "yielded" => Len(eOut') = Len(eOut) + 1 /\ sent' = sent
             /\ epc' = "polling" =>
                   /\ Len(sent') = Len(sent) + 1
                   /\ sent'[Len(sent')].channel = MetaConnect
       /\ (\E i \in 1..Len(tasks) : Unfinished(i) /\ tasks'[i] # tasks[i]) =>
             /\ epc' = epc
             /\ eOut' = eOut]_vars

\* A re-issued subscribe sleeps in its backoff and another is pending, while
\* the loop has sent a /meta/connect frame and yielded a message since.
C19_Witness ==
    \E i, j \in 1..Len(tasks) :
        /\ Unfinished(i) /\ tasks[i].pc = "sleeping"
        /\ Unfinished(j) /\ tasks[j].pc = "waiting"
        /\ \E k \in SentSince(i) : sent[k].channel = MetaConnect
        /\ eOut # <<>>
        /\ epc = "yielded"

\* The calls of subscribe made while the channel's retry state was initial.
FreshCall(t) == t.count0 = 0

\* C21: within one call of subscribe(channel) the first backoff slept is
\* retry_sub_duration, each later one is the previous one multiplied by
\* retry_factor or the cap retry_max_duration if that is smaller, and no
\* backoff slept is longer than retry_max_duration.
C21_BackoffCapped ==
    \A i \in 1..Len(tasks) : FreshCall(tasks[i]) =>
        \A k \in 1..Len(tasks[i].sleeps) :
            /\ tasks[i].sleeps[k] <= retry_max_duration
            /\ k = 1 => tasks[i].sleeps[k] = Min(retry_sub_duration, retry_max_duration)
            /\ k > 1 => tasks[i].sleeps[k]
                           = Min(tasks[i].sleeps[k - 1] * retry_factor, retry_max_duration)

\* An unsuccessful response that the policy callback declared retryable.
IsRetryableFailure(o) == o.kind = "ok" /\ o.body # <<>> /\ ~o.body[1].successful /\ o.says

\* Every inner call of t so far ended with a retryable failure response.
AllBusy(t) == \A k \in 1..Len(t.resps) : IsRetryableFailure(t.resps[k])

\* C22: a call of subscribe(channel) whose inner calls all ended with a
\* retryable failure response, no other call for the channel running, has
\* made fewer than retry_max_count retries, has not raised, has returned once
\* retry_max_count inner calls failed, and what it returned is the last
\* failure response.
C22_Exhaustion ==
    \A i \in 1..Len(tasks) : AllBusy(tasks[i]) =>
        /\ Len(tasks[i].sleeps) < retry_max_count
        /\ tasks[i].inner <= retry_max_count
        /\ tasks[i].pc # "raised"
        /\ Len(tasks[i].resps) >= retry_max_count => tasks[i].pc = "returned"
        /\ tasks[i].pc = "returned" =>
              /\ tasks[i].resps # <<>>
              /\ tasks[i].result = Returned(tasks[i].resps[Len(tasks[i].resps)].body)

C22_Witness ==
    \E i \in 1..Len(tasks) :
        /\ AllBusy(tasks[i])
        /\ FreshCall(tasks[i])
        /\ Len(tasks[i].resps) = retry_max_count
        /\ tasks[i].resps[1].body # tasks[i].resps[retry_max_count].body
        /\ Len(tasks[i].sleeps) = retry_max_count - 1
        /\ tasks[i].pc = "returned"
        /\ ret = tasks[i].result
        /\ cpc = "ready"

\* The failureReason of a response, "" if it gives none.
FailureReason(o) ==
    IF "ext" \in DOMAIN o.body[1] THEN o.body[1].ext.sfdc.failureReason ELSE <<>>

\* An unsuccessful response whose failureReason does not start with
\* SERVER_UNAVAILABLE: the default policy callback declares it not retryable.
IsFinalFailure(o) ==
    /\ o.kind = "ok"
    /\ o.body # <<>>
    /\ ~o.body[1].successful
    /\ ~(/\ Len(FailureReason(o)) >= 18
         /\ SubSeq(FailureReason(o), 1, 18) = ServerUnavailable)

\* Call i of subscribe gets the response of an inner call in this step.
GetsResponse(i) ==
    /\ i <= Len(tasks)
    /\ tasks[i].pc = "waiting"
    /\ Len(tasks'[i].resps) = Len(tasks[i].resps) + 1

\* C23: the step in which an inner subscribe returns an unsuccessful response
\* that the default callback declares not retryable ends the call of
\* subscribe(channel): it returns that response, without a sleep; and a call
\* that has returned makes no further inner call.
C23_NotRetryable ==
    [][\A i \in 1..Len(tasks) :
          /\ (GetsResponse(i) /\ IsFinalFailure(lastResp')) =>
                /\ tasks'[i].pc = "returned"
                /\ tasks'[i].result = Returned(lastResp'.body)
                /\ tasks'[i].sleeps = tasks[i].sleeps
                /\ tasks'[i].inner = tasks[i].inner
                /\ tasks[i].origin = "api" => ret' = Returned(lastResp'.body)
          /\ tasks[i].pc = "returned" => tasks'[i] = tasks[i]]_vars

C23_Witness ==
    \E i \in 1..Len(tasks) :
        /\ Len(tasks[i].resps) = 2
        /\ IsBusy(tasks[i].resps[1])
        /\ IsFinalFailure(tasks[i].resps[2])
        /\ FailureReason(tasks[i].resps[2]) # <<>>
        /\ tasks[i].pc = "returned"
        /\ tasks[i].inner = 2
        /\ Len(tasks[i].sleeps) = 1
        /\ ret = Returned(tasks[i].resps[2].body)

\* The outcome is an exception of the inner subscribe.
IsException(o) == o.kind # "ok"

\* The exception o as its record in a call: with the answer of
\* should_retry_on_exception.
Answered(o, says) == [says |-> says] @@ o

\* Every inner call of t so far raised, and the callback said to retry.
AllRaisedRetry(t) ==
    \A k \in 1..Len(t.resps) : IsException(t.resps[k]) /\ t.resps[k].says

\* C24: in the step in which the inner subscribe of a call raises, if
\* should_retry_on_exception says no, the call raises that exception, with no
\* sleep and no further inner call; if it says yes the call sleeps its
\* backoff, unless it raises that exception; and a call made with the
\* channel's retry state initial whose inner calls all raised with the
\* callback saying yes makes one inner call after each sleep until
\* retry_max_count of them raised, and then raises the last exception.
C24_Exceptions ==
    /\ [][\A i \in 1..Len(tasks) : (GetsResponse(i) /\ IsException(lastResp')) =>
             LET last == tasks'[i].resps[Len(tasks'[i].resps)]
             IN  /\ last = Answered(lastResp', last.says)
                 /\ tasks'[i].inner = tasks[i].inner
                 /\ ~last.says =>
                       /\ tasks'[i].pc = "raised"
                       /\ tasks'[i].result = Raised(lastResp')
                       /\ tasks'[i].sleeps = tasks[i].sleeps
                 /\ last.says =>
                       \/ /\ tasks'[i].pc = "sleeping"
                          /\ Len(tasks'[i].sleeps) = Len(tasks[i].sleeps) + 1
                       \/ /\ tasks'[i].pc = "raised"
                          /\ tasks'[i].result = Raised(lastResp')
                          /\ tasks'[i].sleeps = tasks[i].sleeps]_vars
    /\ [](\A i \in 1..Len(tasks) : (FreshCall(tasks[i]) /\ AllRaisedRetry(tasks[i])) =>
             LET n == Len(tasks[i].resps)
             IN  /\ n <= retry_max_count
                 /\ n < retry_max_count =>
                       /\ Len(tasks[i].sleeps) = n
                       /\ \/ tasks[i].pc = "sleeping" /\ tasks[i].inner = n
                          \/ tasks[i].pc = "waiting" /\ tasks[i].inner = n + 1
                 /\ n = retry_max_count =>
                       /\ tasks[i].pc = "raised"
                       /\ Len(tasks[i].sleeps) = n - 1
                       /\ tasks[i].inner = n
                       /\ Answered(tasks[i].result.value, TRUE) = tasks[i].resps[n])
    /\ [](\A i \in 1..Len(tasks) : tasks[i].pc = "raised" => tasks[i].inner = Len(tasks[i].resps))

C24_Witness ==
    \E i \in 1..Len(tasks) :
        /\ FreshCall(tasks[i])
        /\ AllRaisedRetry(tasks[i])
        /\ Len(tasks[i].resps) = retry_max_count
        /\ tasks[i].resps[1] # tasks[i].resps[retry_max_count]
        /\ tasks[i].pc = "raised"
        /\ ret = Raised(HttpError(503))
        /\ cpc = "ready"

\* The call has ended: it returned or raised.
Ended(t) == t.pc \in {"returned", "raised"}

\* C25: when the calls of subscribe(channel) made so far have all ended,
\* returned or raised, the channel's retry count is 0 and its backoff unset;
\* and every call of subscribe(channel) made after the earlier ones ended
\* started with the retry count at 0.
C25_ResetOnEnd ==
    \A c \in SubChannels :
        (\A i \in 1..Len(tasks) : tasks[i].channel = c => Ended(tasks[i])) =>
            /\ retry_current_count[c] = 0
            /\ retry_current_duration[c] = -1
            /\ \A i \in 1..Len(tasks) : tasks[i].channel = c => FreshCall(tasks[i])

\* C26: whatever the inner subscribe calls end with and whatever the policy
\* callbacks answer, a call of subscribe(channel) makes at most
\* retry_max_count inner calls (at least one), it ends (sleeps and inner calls
\* ending), and what it returns or raises is the response or the exception of
\* its last inner call.
C26_Terminates ==
    /\ \A n \in 1..MaxSubs : (Len(tasks) >= n) ~> (Len(tasks) >= n /\ Ended(tasks[n]))
    /\ [](\A i \in 1..Len(tasks) :
             /\ tasks[i].inner <= retry_max_count
             /\ Len(tasks[i].sleeps) < retry_max_count
             /\ Ended(tasks[i]) =>
                   /\ tasks[i].resps # <<>>
                   /\ LET last == tasks[i].resps[Len(tasks[i].resps)]
                      IN  IF tasks[i].pc = "raised"
                          THEN /\ IsException(last)
                               /\ tasks[i].result = Raised([k \in DOMAIN last \ {"says"} |-> last[k]])
                          ELSE /\ ~IsException(last)
                               /\ tasks[i].result = Returned(last.body))

\* A call that alternated failure responses and exceptions, all retried, and
\* ended on the last of them.
C26_Witness ==
    \E i \in 1..Len(tasks) :
        /\ Len(tasks[i].resps) = retry_max_count
        /\ \A k \in 1..retry_max_count : tasks[i].resps[k].says
        /\ IsException(tasks[i].resps[1])
        /\ IsRetryableFailure(tasks[i].resps[2])
        /\ Ended(tasks[i])

\* The call runs its retry loop: it has started and has not ended.
InRetryLoop(t) == t.pc \in {"waiting", "sleeping"}

\* C27: with Auto Reconnect and Subscribe Retry composed, no two calls of
\* subscribe for the same channel are in their retry loop at the same time.
C27_OneLoopPerChannel ==
    \A i, j \in 1..Len(tasks) :
        (i # j /\ tasks[i].channel = tasks[j].channel)
            => ~(InRetryLoop(tasks[i]) /\ InRetryLoop(tasks[j]))

\* The value the subscribe frame must carry for what the callback returned:
\* -1 for no stored position and for the new-events sentinel, -2 for the
\* all-events sentinel, p for the integer p.
ClaimedPosition(v) ==
    IF v.kind = "None" \/ v = NEW_EVENTS THEN -1
    ELSE IF v = ALL_EVENTS THEN -2
    ELSE v.value

\* The frame that the subscribe call of lookup l sent.
LookupFrame(l) == sent[l.at + 1]

\* C28: with Replay, the subscribe frame for a channel carries
\* ext.replay[channel] = -1 when the callback returns no stored position or
\* the new-events sentinel, -2 when it returns the all-events sentinel, and p
\* for every integer position p it returns.
C28_ReplayPosition ==
    \A i \in 1..Len(lookups) :
        lookups[i].returned.kind # "Replay" =>
            /\ Len(sent) > lookups[i].at
            /\ LookupFrame(lookups[i]).channel = MetaSubscribe
            /\ LookupFrame(lookups[i]).subscription = lookups[i].channel
            /\ LookupFrame(lookups[i]).ext.replay[lookups[i].channel]
                   = ClaimedPosition(lookups[i].returned)

\* The non-meta messages among those of sequence q, in their order.
EventsOf(q) == SelectSeq(q, LAMBDA m : ~StartsWith(m.channel, MetaPrefix))

\* The store task was handed the fields of message m.
StoresMessage(t, m) ==
    /\ t.channel = m.channel
    /\ t.replay_id = m.data.event.replayId
    /\ t.creation_time = m.data.event.createdDate

\* C29: with Replay, the store callback is invoked exactly once for every
\* non-meta message that messages() delivers, with that message's channel,
\* replayId and createdDate, never for a meta message, and the invocations
\* start in the order of delivery: the calls handed to create_task() are those
\* of the delivered non-meta messages in order, a call starts only after the
\* calls before it, a started call is not started again, and every call made
\* is eventually started.
C29_StoreInvoked ==
    /\ [](/\ Len(stores) = Len(EventsOf(eOut))
          /\ \A i \in 1..Len(stores) : StoresMessage(stores[i], EventsOf(eOut)[i])
          /\ \A i, j \in 1..Len(stores) :
                i < j /\ stores[j].pc # "created" => stores[i].pc # "created")
    /\ [][\A i \in 1..Len(stores) :
             /\ stores[i].pc # "created" => stores'[i].pc # "created"
             /\ stores[i].pc = "done" => stores'[i].pc = "done"]_vars
    /\ \A n \in 1..ReplayMsgs :
          (Len(stores) >= n) ~> (Len(stores) >= n /\ stores[n].pc # "created")

\* A meta message and an event were delivered, and the event's store task was
\* started.
C29_Witness ==
    /\ \E i \in 1..Len(eOut) : StartsWith(eOut[i].channel, MetaPrefix)
    /\ Len(stores) >= 1
    /\ stores[1].pc # "created"

\* The store tasks of the channel that have ended.
Persisted(channel) ==
    {i \in 1..Len(stores) : stores[i].pc = "done" /\ stores[i].channel = channel}

\* The second at which a creation timestamp says the event was created.
CreatedAt(creation_time) == StrToInt(creation_time)

\* C30: the replay position stored for a channel is that of the most recently
\* created event observed on the channel, whatever the order in which the
\* events arrived and their store tasks ended: nothing is stored before a
\* store task of the channel ended; afterwards the stored record is that of a
\* persisted event of the channel and no persisted event of the channel was
\* created later; once every store task has ended, no delivered event of the
\* channel was created later.
C30_LatestCreated ==
    \A c \in SubChannels : \A v \in get_last_replay_id(c) :
        IF Persisted(c) = {} THEN v = NoReplay
        ELSE /\ v.kind = "Replay"
             /\ \E i \in Persisted(c) :
                   v.record = Replay(c, stores[i].replay_id, stores[i].creation_time)
             /\ \A i \in Persisted(c) :
                   CreatedAt(stores[i].creation_time) <= CreatedAt(v.record.creation_time)
             /\ (\A i \in 1..Len(stores) : stores[i].pc = "done") =>
                   \A i \in 1..Len(eOut) :
                       eOut[i].channel = c =>
                           CreatedAt(eOut[i].data.event.createdDate)
                               <= CreatedAt(v.record.creation_time)

\* Two events of one channel arrived in the reverse of their creation order,
\* both were persisted, and the stored position is that of the first, the one
\* created last.
C30_Witness ==
    /\ Len(stores) = 2
    /\ stores[1].channel = TopicFoo /\ stores[2].channel = TopicFoo
    /\ CreatedAt(stores[2].creation_time) < CreatedAt(stores[1].creation_time)
    /\ stores[1].pc = "done" /\ stores[2].pc = "done"
    /\ Cardinality(stored_replay) = 2
    /\ get_last_replay_id(TopicFoo)
           = {[kind |-> "Replay",
               record |-> Replay(TopicFoo, stores[1].replay_id, stores[1].creation_time)]}

\* C31: replay persistence never delays the long-poll loop: a store task is
\* created with its message yielded, and whenever the consumer may ask for the
\* next message the loop can take its next step (yield the next message, send
\* the next /meta/connect frame, or return), whatever the state of the store
\* tasks, ended or not.
C31_StoreDoesNotDelay ==
    /\ Len(stores) <= Len(eOut)
    /\ (/\ cpc = "ready"
        /\ epc \in {"idle", "yielded"}
        /\ (rest # <<>> \/ should_stop \/ Len(polls) < MaxPolls))
       => ENABLED replay_next_message

\* The loop has sent its second /meta/connect frame while the store task of
\* an event of the first response was not even started.
C31_Witness ==
    /\ Len(stores) >= 1
    /\ stores[1].pc = "created"
    /\ Len(polls) = 1
    /\ epc = "polling"
    /\ sent[Len(sent)].channel = MetaConnect

\* The positions in q of the /meta/connect messages that carry advice.timeout.
Advised(q) ==
    {i \in 1..Len(q) : /\ DictGet(q[i], "channel", <<>>) = MetaConnect
                       /\ "advice" \in DOMAIN q[i]
                       /\ "timeout" \in DOMAIN q[i].advice}

\* The timeout of the last message of q among those at the positions S, the
\* initial timeout when there is none.
LastAdvice(q, S) ==
    IF S = {} THEN default_timeout
    ELSE q[CHOOSE i \in S : \A j \in S : j <= i].advice.timeout

DelegatedAfter(k) ==
    {i \in FramesOn(MetaHandshake) :
        /\ i > discovery[k].at
        /\ k < Len(discovery) => i <= discovery[k + 1].at}

\* The version the session has after the discovery answers q, from the
\* version v: the last-listed version of each non-empty list whose last
\* entry has one.
RECURSIVE AdoptedVersion(_, _)
AdoptedVersion(q, v) ==
    IF q = <<>> THEN v
    ELSE AdoptedVersion(Tail(q),
                        IF /\ q[1].kind = "ok"
                           /\ q[1].body # <<>>
                           /\ "version" \in DOMAIN q[1].body[Len(q[1].body)]
                        THEN q[1].body[Len(q[1].body)].version
                        ELSE v)

\* The discovery request was made first and once: no handshake frame was sent
\* without a discovery request ended before it.
DiscoveryFirst ==
    /\ \A i \in FramesOn(MetaHandshake) : \E k \in 1..Len(discovery) : i \in DelegatedAfter(k)
    /\ version = AdoptedVersion(discovery, "42.0")

\* C33 as stated: every handshake queries the discovery endpoint once and
\* then delegates to the inner handshake once, adopting the last-listed
\* version of a non-empty list; an empty list or an entry without version
\* leaves the version unchanged and the handshake goes on.
C33_EveryHandshake ==
    /\ DiscoveryFirst
    /\ \A k \in 1..Len(discovery) : Cardinality(DelegatedAfter(k)) = 1

\* C33, amended: every handshake queries the discovery endpoint once and,
\* when the request is answered, then delegates to the inner handshake once,
\* adopting the last-listed version of a non-empty list; an empty list or a
\* last entry without version leaves the version unchanged and the handshake
\* goes on; a discovery request that fails makes the handshake fail with its
\* error, before the inner handshake and with the version unchanged.
C33_AutoVersion ==
    /\ DiscoveryFirst
    /\ \A k \in 1..Len(discovery) :
          IF discovery[k].kind = "ok"
          THEN Cardinality(DelegatedAfter(k)) = 1
          ELSE /\ DelegatedAfter(k) = {}
               /\ k = Len(discovery) => cpc = "start_failed" /\ ret.kind = "raise"

\* The discovery listed 43.0 then 41.0: the session has version 41.0 and the
\* handshake frame was sent.
C33_Witness ==
    /\ Len(discovery) = 1
    /\ discovery[1].kind = "ok"
    /\ Len(discovery[1].body) = 2
    /\ version = "41.0"
    /\ FramesOn(MetaHandshake) # {}

\* No handshake frame was sent after frame i up to frame j.
SameHandshake(i, j) == \A k \in (i + 1)..j : sent[k].channel # MetaHandshake

\* C34: between two handshakes no two transmitted frames share an id and the
\* ids increase in transmission order, whatever the interleaving of the
\* long-poll loop with the subscribe and unsubscribe calls and the subscribe
\* tasks created by a re-handshake: each frame that is not a handshake frame
\* has a greater id than the frame sent before it.
C34_IdsIncrease ==
    \A i \in 1..(Len(sent) - 1) :
        SameHandshake(i, i + 1) => StrToInt(sent[i].id) < StrToInt(sent[i + 1].id)

\* After a re-handshake the loop has sent a /meta/connect frame and a task
\* created by the handshake a /meta/subscribe frame, in this order or the
\* other.
C34_Witness ==
    \E h \in FramesOn(MetaHandshake) :
        /\ h > 1
        /\ \E i, j \in (h + 1)..Len(sent) :
              /\ SameHandshake(h, i) /\ SameHandshake(h, j)
              /\ sent[i].channel = MetaConnect
              /\ sent[j].channel = MetaSubscribe

\* The handshake frames sent by the message loop: all but the first.
Rehandshakes == {h \in FramesOn(MetaHandshake) : \E g \in FramesOn(MetaHandshake) : g < h}

\* The frames sent after the last handshake frame.
SinceHandshake == {i \in 1..Len(sent) : \A h \in FramesOn(MetaHandshake) : h < i}

\* The client id the last answered handshake returned.
ReturnedClientId == hsResp.body[1].clientId

\* The client ids that the handshakes of the message loop return.
RehandshakeIds == {o.body[1].clientId : o \in {x \in RehandshakeOutcomes : x.kind = "ok"}}

\* A subscribe call created by handshake() sends a frame in this step.
ReissuedSends ==
    /\ Len(sent') = Len(sent) + 1
    /\ \E i \in 1..Len(tasks) :
          tasks[i].origin = "handshake" /\ tasks'[i].inner = tasks[i].inner + 1

C39_HandshakeWithoutClientId ==
    \A h \in FramesOn(MetaHandshake) : "clientId" \notin DOMAIN sent[h]

\* C38: whenever start(), called directly or by __aenter__, fails after
\* create_connected_session() returned the session, that is when the handshake
\* request fails or its response is malformed, the session is released: the
\* instance holds no open session when the error leaves start().
C38_FailedStartReleases ==
    [][(cpc = "handshake" /\ cpc' = "start_failed") => session' # Open]_vars

\* Call i of subscribe takes a step: it makes an inner call or its inner call
\* ends.
TaskSteps(i) == i \in 1..Len(tasks) /\ Len(tasks') = Len(tasks) /\ tasks'[i] # tasks[i]

\* The retry state of a channel: its count and its sleep duration.
RetryState(channel) == <<retry_current_count[channel], retry_current_duration[channel]>>

\* C40: retry state is per channel.  A step of a subscribe call for a channel,
\* be it a failure counted, a sleep begun or ended, or the reset at its end,
\* leaves the retry count and the sleep duration of every other channel as
\* they were, also while a call for the other channel is in its own loop; and
\* the retry state of a channel changes only in a step of a call for it.
C40_PerChannelRetry ==
    [][/\ \A i \in 1..Len(tasks) :
             TaskSteps(i) =>
                 \A b \in SubChannels \ {tasks[i].channel} : RetryState(b)' = RetryState(b)
       /\ \A b \in SubChannels :
             RetryState(b)' # RetryState(b) =>
                 \E i \in 1..Len(tasks) : TaskSteps(i) /\ tasks[i].channel = b]_vars

\* Two calls created by one handshake(), for two channels, were in their loops
\* at once, each after a failure and a sleep: the one has returned and reset
\* the state of its channel, the other is still in its loop and the count of
\* its channel stands.
C40_Witness ==
    \E i, j \in 1..Len(tasks) :
        /\ tasks[i].channel # tasks[j].channel
        /\ tasks[i].origin = "handshake" /\ tasks[j].origin = "handshake"
        /\ tasks[i].pc = "returned" /\ tasks[i].sleeps # <<>>
        /\ tasks[j].pc \in {"sleeping", "waiting"} /\ tasks[j].sleeps # <<>>
        /\ retry_current_count[tasks[i].channel] = 0
        /\ retry_current_count[tasks[j].channel] > 0

\* The lookups of the callback made after the message loop sent a handshake
\* frame: those of the subscribe calls that handshake() created.
ReissueLookups == {i \in 1..Len(lookups) : \E h \in Rehandshakes : h <= lookups[i].at}

\* The calls of subscribe that handshake() created.
ReissuedCalls == {i \in 1..Len(tasks) : tasks[i].origin = "handshake"}

\* Call i runs the loop of ReSubscribeMixin.subscribe: every inner call but
\* the one that ended it was followed by a sleep, and it has returned only on
\* a success or with the retries of the channel used up.
RunsRetryLoop(i) ==
    /\ tasks[i].pc = "sleeping" => Len(tasks[i].sleeps) = Len(tasks[i].resps)
    /\ tasks[i].pc = "returned" =>
          /\ Len(tasks[i].sleeps) = Len(tasks[i].resps) - 1
          /\ tasks[i].result = Returned(tasks[i].resps[Len(tasks[i].resps)].body)
          /\ \/ tasks[i].result.value[1].successful
             \/ Len(tasks[i].resps) >= retry_max_count

\* C36: in the full extension chain every subscribe re-issued after a
\* re-handshake of the message loop runs the retry loop of
\* ReSubscribeMixin.subscribe, each frame it sends carries in
\* ext.replay[channel] the position that get_last_replay_id(channel) returned
\* for that frame (-1 for None), and neither handshake() nor a re-issued call
\* changes the set of subscribed channels.
C36_ChainResubscribe ==
    /\ [](/\ \A i \in ReissuedCalls : RunsRetryLoop(i)
          /\ \A i \in ReissueLookups :
                /\ Len(sent) > lookups[i].at
                /\ LookupFrame(lookups[i]).channel = MetaSubscribe
                /\ LookupFrame(lookups[i]).subscription = lookups[i].channel
                /\ LookupFrame(lookups[i]).ext.replay[lookups[i].channel]
                       = ClaimedPosition(lookups[i].returned)
          /\ \A h \in Rehandshakes : \A f \in FramesOn(MetaSubscribe) :
                h < f => \E i \in ReissueLookups : lookups[i].at = f - 1)
    /\ [][(epc = "handshake" \/ \E i \in ReissuedCalls : TaskSteps(i))
            => subchannels' = subchannels]_vars

\* C37: once stop() has returned, every call that the session handed to
\* create_task() has ended, and no step sends a frame or runs a callback of
\* the client: no frame is added, get_last_replay_id() is not called, no store
\* call starts or ends.
C37_QuietAfterStop ==
    /\ [](cpc = "stopped" =>
             /\ \A i \in 1..Len(tasks) : tasks[i].pc \in {"returned", "raised"}
             /\ \A i \in 1..Len(stores) : stores[i].pc = "done")
    /\ [][cpc = "stopped" =>
             /\ sent' = sent
             /\ lookups' = lookups
             /\ stores' = stores
             /\ stored_replay' = stored_replay]_vars

====
